---- MODULE Spec2Model ----
(***************************************************************************)
(* Verification model of blockzilla: the CAR block-group reader            *)
(* (crates/car-reader), the postcard frame codec (crates/blockzilla-format)*)
(* and the per-epoch optimizer pipeline (crates/optimize-car-archive).     *)
(*                                                                         *)
(* Eight specifications share the module's variables; each one keeps the     *)
(* variables of the other subsystems at their idle value:                  *)
(*   SpecReader     the archive reader and CarStream over a byte stream    *)
(*   SpecFrame      PostcardFramedWriter / PostcardFramedReader            *)
(*   SpecBuild      build::run, its three phases, crashes and re-runs      *)
(*   SpecBlockhash  the blockhash registry and the recent-blockhash codec  *)
(*   SpecKeys       the key registry, KeyIndex and the two block passes    *)
(*   SpecLogs       parse_logs, render_logs and parse_logs again           *)
(*   SpecMeta       the metadata decoder on one frame                      *)
(*   SpecTxIter     TxIter::next_tx over the nodes of a block group        *)
(***************************************************************************)
EXTENDS Integers, Sequences, FiniteSets, TLC

(***************************************************************************)
(* Bounds of the model.                                                    *)
(***************************************************************************)
\* groups in an archive
MaxGroups == 3
\* frames handed to a PostcardFramedWriter
MaxFrames == 3
\* hashes of the current epoch in a blockhash registry
MaxHashes == 2
\* hashes the previous epoch's file has beyond PREV_TAIL_LEN
MaxOver == 2
\* calls a client makes to the reader after construction
MaxCalls == 4
\* the keys a block can mention besides the compute-budget key are 1..MaxKeys
MaxKeys == 3
\* lines of one transaction's log
MaxLines == 2
\* nodes of the entries of one block group
MaxTxs == 2

(***************************************************************************)
(* Program constants.                                                      *)
(***************************************************************************)
MAX_UVARINT_LEN_64 == 10
PREV_TAIL_LEN == 200

VARIABLES
    \* ---- archive reader ------------------------------------------------
    archive,    \* the input: how the byte stream was put together
    stream,     \* the input: the bytes the reader can get (Stream(archive))
    client,     \* who drives the reader: "reader" | "carstream" | "none"
    pos,        \* bytes the CarBlockReader has consumed from the stream
    group,      \* the CarBlockGroup `out` the reader fills
    results,    \* what each call returned to the caller, in call order
    \* ---- optimizer pipeline (build::run) ---------------------------------
    resume,     \* cli.resume of the current run
    rerun,      \* the current run is a re-run over the files of an earlier one
    pc,         \* where the run is
    fs,         \* the epoch directory: each path is Absent or its content
    mem,        \* the running phase's memory
    log,        \* the phase decisions of the current run, in order
    cbCalls,    \* callback invocations of the current stream_car_blocks
    rdErr,      \* the reader returned a fatal error to stream_car_blocks
    \* ---- postcard frame codec -------------------------------------------
    sink,       \* the bytes PostcardFramedWriter has written to its `w`
    written,    \* what was handed to the writer, in write order
    source,     \* the bytes PostcardFramedReader's `r` can get
    rpos,       \* bytes the PostcardFramedReader has consumed
    frames,     \* what each call of read returned, in call order
    fpc,        \* "writing" | "reading" | "off"
    \* ---- blockhash registry ---------------------------------------------
    bhin,       \* the inputs: the epoch's hashes, the previous epoch's file
    bh,         \* the BlockhashRegistry built from them
    bhret,      \* what the last call on it returned
    \* ---- key registry ---------------------------------------------------
    kin,        \* the input: the transactions of the epoch's block
    kpc,        \* where the two passes over the block are
    kcounts,    \* the counting pass's PubkeyCounter
    kkeys,      \* registry.bin: the keys in file order
    kindex,     \* the KeyIndex built over the file
    kout,       \* what the encoding pass returned
    kret,       \* what the last single call on the index or store returned
    \* ---- log-stream compactor -----------------------------------------
    loglines,   \* the input: a transaction's log lines
    logpc,      \* "off" | "parse" | "render" | "reparse" | "done" | "panicked"
    parsed,     \* parse_logs(loglines)
    rendered,   \* render_logs(parsed)
    reparsed,   \* parse_logs(rendered)
    \* ---- metadata decoder ----------------------------------------------
    mdin,       \* the input: a slot and a metadata frame
    mdout,      \* what decode_transaction_status_meta_from_frame returned
    \* ---- TxIter ----------------------------------------------------------
    tin,        \* the input: the nodes of the group's entries, in visit order
    tpos,       \* nodes the two cursors have passed
    reusable_meta, \* TxIter.reusable_meta
    has_tx,     \* TxIter.has_tx
    has_meta,   \* TxIter.has_meta
    tret        \* what the last call of next_tx returned

rvars == <<archive, stream, client, pos, group, results>>
bvars == <<resume, rerun, pc, fs, mem, log, cbCalls, rdErr>>

fvars == <<sink, written, source, rpos, frames, fpc>>
lvars == <<bhin, bh, bhret>>
kvars == <<kin, kpc, kcounts, kkeys, kindex, kout, kret>>
gvars == <<loglines, logpc, parsed, rendered, reparsed>>
mvars == <<mdin, mdout>>
tvars == <<tin, tpos, reusable_meta, has_tx, has_meta, tret>>

vars == <<archive, stream, client, pos, group, results,
          resume, rerun, pc, fs, mem, log, cbCalls, rdErr,
          sink, written, source, rpos, frames, fpc,
          bhin, bh, bhret,
          kin, kpc, kcounts, kkeys, kindex, kout, kret,
          loglines, logpc, parsed, rendered, reparsed,
          mdin, mdout,
          tin, tpos, reusable_meta, has_tx, has_meta, tret>>

(***************************************************************************)
(* Sequences of bytes.                                                     *)
(***************************************************************************)
Take(s, n) == SubSeq(s, 1, n)
Drop(s, n) == SubSeq(s, n + 1, Len(s))
Fill(n, b) == [i \in 1..n |-> b]

RECURSIVE Concat(_)
Concat(ss) == IF ss = <<>> THEN <<>> ELSE Head(ss) \o Concat(Tail(ss))

(***************************************************************************)
(* The archive's wire format, used to build the inputs (spec 4.3):         *)
(* a section is uvarint(size) || content id || payload.                    *)
(***************************************************************************)
\* uvarint of n < 128: canonical one byte, or the two-byte form with a
\* continuation bit that read_uvarint_bufread accepts as the same value
EncodeUvarint(n, wide) == IF wide THEN <<128 + n, 0>> ELSE <<n>>

\* CIDv1 / dag-cbor / sha-256 / a digest of one byte (32 in real archives;
\* cid_bytes_len takes the length from the multihash header)
CidOf(d) == <<1, 113, 18, 1, d>>

SectionBytes(d, payload, wide) ==
    EncodeUvarint(Len(CidOf(d)) + Len(payload), wide) \o CidOf(d) \o payload

\* payload of an entry node (kind 1) and of the block node (kind 2) of slot g
EntryPayload(g, j) == <<132, 1, g, j>>
BlockPayload(g) == <<134, 2, g>>

GroupBytes(g, nsec, wide) ==
    Concat([j \in 1..nsec |-> SectionBytes(10 * g + j, EntryPayload(g, j), wide)])
        \o SectionBytes(10 * g, BlockPayload(g), wide)

\* what the stream holds after the archive's sections: nothing, or a
\* zero-size section, a section with a malformed content id, a size varint
\* of more than MAX_UVARINT_LEN_64 bytes
TailBytes(ending) ==
    CASE ending = "zero" -> <<0>>
      [] ending = "badcid" -> <<3, 0, 129, 1>>
      [] ending = "overflow" -> Fill(MAX_UVARINT_LEN_64, 128)
      [] OTHER -> <<>>

GoodBytes(a) ==
    Concat([g \in 1..Len(a.shape) |-> GroupBytes(g, a.shape[g], a.wide)])

\* the bytes the reader can get before the stream ends: the first a.cut
\* bytes of the sections, then the tail
Stream(a) == Take(GoodBytes(a), a.cut) \o TailBytes(a.ending)

\* how the stream ends: end of file, or a failing read
StreamEnd(a) == IF a.ending = "ioerr" THEN "ioerr" ELSE "eof"

\* offsets at which a group of the archive is complete
GroupEnd(a, n) ==
    Len(Concat([g \in 1..n |-> GroupBytes(g, a.shape[g], a.wide)]))
Boundaries(a) == {GroupEnd(a, n) : n \in 0..Len(a.shape)}

\* number of complete groups in the stream
NumComplete(a) == Cardinality({n \in 1..Len(a.shape) : GroupEnd(a, n) <= a.cut})

\* the archive is N complete groups and nothing else
Complete(a) == a.ending = "eof" /\ a.cut \in Boundaries(a)

\* the stream ends inside a group
MidGroup(a) == a.ending = "eof" /\ a.cut \notin Boundaries(a)

\* a group is its block alone, or two entries and the block
SectionCounts == {0, 2}
Shapes == UNION {[1..n -> SectionCounts] : n \in 0..MaxGroups}

\* truncated anywhere (by end of file or by a failing read), or whole groups
\* followed by a tail
Archives ==
    UNION {
        {a \in [shape : {sh}, wide : {w},
                ending : {"eof", "ioerr", "zero", "badcid", "overflow"},
                cut : 0..GroupEnd([shape |-> sh, wide |-> w], Len(sh))] :
            a.ending \in {"zero", "badcid", "overflow"} => a.cut \in Boundaries(a)}
        : <<sh, w>> \in Shapes \X BOOLEAN}

(***************************************************************************)
(* car-reader: reader.rs, cid.rs                                           *)
(***************************************************************************)
\* b << s for the low seven bits of a varint byte (0 contributes nothing)
Shl(b, s) == IF b = 0 THEN 0 ELSE b * (2 ^ s)

\* read_uvarint_bufread: the loop over the bytes of the stream from offset p.
\* k = "ok" (value v, stream consumed up to p), "eof", "io" or "overflow".
RECURSIVE UvarintLoop(_, _, _, _, _, _)
UvarintLoop(bytes, end, p, x, s, i) ==
    IF i >= MAX_UVARINT_LEN_64 THEN [k |-> "overflow", v |-> 0, p |-> p]
    ELSE IF p >= Len(bytes)
    THEN [k |-> IF end = "eof" THEN "eof" ELSE "io", v |-> 0, p |-> p]
    ELSE LET byte == bytes[p + 1] IN
         IF byte < 128
         THEN IF i + 1 = MAX_UVARINT_LEN_64 /\ byte > 1
              THEN [k |-> "overflow", v |-> 0, p |-> p]
              ELSE [k |-> "ok", v |-> x + Shl(byte, s), p |-> p + 1]
         ELSE IF s + 7 > 63
              THEN [k |-> "overflow", v |-> 0, p |-> p]
              ELSE UvarintLoop(bytes, end, p + 1, x + Shl(byte - 128, s), s + 7, i + 1)

read_uvarint_bufread(bytes, end, p) == UvarintLoop(bytes, end, p, 0, 0, 0)

\* read_uvarint_slice: [ok, v, used]
RECURSIVE UvarintSlice(_, _, _, _)
UvarintSlice(buf, i, x, s) ==
    IF i >= Len(buf) \/ i >= MAX_UVARINT_LEN_64 THEN [ok |-> FALSE, v |-> 0, used |-> 0]
    ELSE LET b == buf[i + 1] IN
         IF b < 128 THEN [ok |-> TRUE, v |-> x + Shl(b, s), used |-> i + 1]
         ELSE IF s + 7 > 63 THEN [ok |-> FALSE, v |-> 0, used |-> 0]
         ELSE UvarintSlice(buf, i + 1, x + Shl(b - 128, s), s + 7)

read_uvarint_slice(buf) == UvarintSlice(buf, 0, 0, 0)

\* cid_bytes_len: the length of the content id in front of an entry, -1 for
\* CarReadError::Cid
cid_bytes_len(entry) ==
    IF entry = <<>> THEN -1
    ELSE IF entry[1] # 1 THEN -1
    ELSE LET c == read_uvarint_slice(Drop(entry, 1)) IN
         IF ~c.ok THEN -1
         ELSE LET m == read_uvarint_slice(Drop(entry, 1 + c.used)) IN
              IF ~m.ok THEN -1
              ELSE LET l == read_uvarint_slice(Drop(entry, 1 + c.used + m.used)) IN
                   IF ~l.ok THEN -1
                   ELSE LET e == 1 + c.used + m.used + l.used + l.v IN
                        IF Len(entry) < e THEN -1 ELSE e

\* is_block_node: a CBOR array (major type 4) whose first element is 2
is_block_node(payload) ==
    IF Len(payload) < 2 THEN FALSE
    ELSE IF payload[1] \div 32 # 4 THEN FALSE
    ELSE payload[2] = 2

\* CarBlockGroup after clear()
EmptyGroup == [payloads |-> <<>>, block_payload |-> <<>>]

\* CarBlockReader::read_until_block_into: out, buf and entries are cleared,
\* then sections are read from offset p until a block node is seen.
\* ret = "Ok(true)" | "Ok(false)" | "Err"
RECURSIVE ReadLoop(_, _, _, _)
ReadLoop(bytes, end, p, entries) ==
    LET sz == read_uvarint_bufread(bytes, end, p) IN
    IF sz.k = "eof"
    THEN IF entries = <<>>
         THEN [ret |-> "Ok(false)", err |-> "", pos |-> sz.p, group |-> EmptyGroup]
         ELSE [ret |-> "Err", err |-> "UnexpectedEof", pos |-> sz.p, group |-> EmptyGroup]
    ELSE IF sz.k = "io"
    THEN [ret |-> "Err", err |-> "Io", pos |-> sz.p, group |-> EmptyGroup]
    ELSE IF sz.k = "overflow"
    THEN [ret |-> "Err", err |-> "VarintOverflow", pos |-> sz.p, group |-> EmptyGroup]
    ELSE IF sz.v = 0 THEN ReadLoop(bytes, end, sz.p, entries)
    ELSE IF sz.p + sz.v > Len(bytes)
    THEN \* read_n_into_tail failed: the resize is rolled back
         IF end = "eof"
         THEN [ret |-> "Ok(false)", err |-> "", pos |-> Len(bytes), group |-> EmptyGroup]
         ELSE [ret |-> "Err", err |-> "Io", pos |-> Len(bytes), group |-> EmptyGroup]
    ELSE LET entry == SubSeq(bytes, sz.p + 1, sz.p + sz.v)
             cid_len == cid_bytes_len(entry)
         IN  IF cid_len < 0
             THEN [ret |-> "Err", err |-> "Cid", pos |-> sz.p + sz.v, group |-> EmptyGroup]
             ELSE LET payload == Drop(entry, cid_len)
                      es == Append(entries, [cid |-> Take(entry, cid_len),
                                             payload |-> payload])
                  IN  IF is_block_node(payload)
                      THEN [ret |-> "Ok(true)", err |-> "", pos |-> sz.p + sz.v,
                            group |-> [payloads |-> es, block_payload |-> payload]]
                      ELSE ReadLoop(bytes, end, sz.p + sz.v, es)

read_until_block_into(a, bytes, p) == ReadLoop(bytes, StreamEnd(a), p, <<>>)

(***************************************************************************)
(* optimize-car-archive: what a phase does with one block group.           *)
(* A group's non-block sections stand for the block's entries, each with   *)
(* its hash and one transaction; the content-id links of the block node    *)
(* are not modelled.                                                       *)
(***************************************************************************)
\* a path of the epoch directory: no file, or a file with its content
Absent == [exists |-> FALSE, data |-> <<>>]
File(d) == [exists |-> TRUE, data |-> d]

\* file_nonempty without the length test (m.is_file() alone)
file_nonempty_exists(f) == f.exists

\* file_nonempty: the path is a file of nonzero length
file_nonempty(f) == f.exists /\ Len(f.data) > 0

\* decode_node(group.block_payload) yields Node::Block
DecodesAsBlock(payload) == is_block_node(payload)

\* the entries of the group's block, last first
EntriesOf_reversed(g) ==
    LET es == SelectSeq(g.payloads, LAMBDA e : ~is_block_node(e.payload))
    IN  [i \in 1..Len(es) |-> es[Len(es) + 1 - i]]

\* the entries of the group's block, in block order
EntriesOf(g) == SelectSeq(g.payloads, LAMBDA e : ~is_block_node(e.payload))

\* entry.hash, and the account keys of the entry's transaction: one key
\* that every block's j-th entry uses, one that only this entry uses
EntryHash(e) == 10 * e.payload[3] + e.payload[4]
EntryKeys(e) == <<e.payload[4], 10 * e.payload[3] + e.payload[4]>>

\* stream_car_blocks: what the loop does with the reader's result, the
\* callback ("call") or leaving the loop and returning Ok(())
stream_car_blocks_next(r) == IF r.ret # "Err" THEN "call" ELSE "return_ok"

\* the blockhash phase's callback: ok, and the hash to push if any
BhCallback(g) ==
    IF ~DecodesAsBlock(g.block_payload) THEN [ok |-> FALSE, push |-> <<>>]
    ELSE LET es == EntriesOf(g) IN
         [ok |-> TRUE,
          push |-> IF es = <<>> THEN <<>> ELSE <<EntryHash(es[Len(es)])>>]

\* PubkeyCounter::add32 for every key of the sequence ks
RECURSIVE AddAll(_, _)
AddAll(counts, ks) ==
    IF ks = <<>> THEN counts
    ELSE LET k == Head(ks)
             c == IF k \in DOMAIN counts THEN counts[k] ELSE 0
         IN  AddAll([x \in DOMAIN counts \cup {k} |-> IF x = k THEN c + 1 ELSE counts[x]],
                    Tail(ks))

\* registry_process_block: ok, and the counter afterwards
RegCallback(g, counts) ==
    IF ~DecodesAsBlock(g.block_payload) THEN [ok |-> FALSE, counts |-> counts]
    ELSE LET es == EntriesOf(g) IN
         [ok |-> TRUE,
          counts |-> AddAll(counts, Concat([i \in 1..Len(es) |-> EntryKeys(es[i])]))]

\* the comparator without the counts: key ascending only
Before_key_only(counts, a, b) == a < b

\* items.sort_unstable_by(count descending, then key ascending)
Before(counts, a, b) == counts[a] > counts[b] \/ (counts[a] = counts[b] /\ a < b)

RECURSIVE SortKeys(_, _)
SortKeys(counts, ks) ==
    IF ks = {} THEN <<>>
    ELSE LET first == CHOOSE a \in ks : \A b \in ks \ {a} : Before(counts, a, b)
         IN  <<first>> \o SortKeys(counts, ks \ {first})

SortedRegistry(counts) == SortKeys(counts, DOMAIN counts)

\* Registry::lookup: the 1-based id of the key, 0 for None
Lookup(registry, k) ==
    IF \E i \in 1..Len(registry) : registry[i] = k
    THEN CHOOSE i \in 1..Len(registry) : registry[i] = k
    ELSE 0

\* the previous id taken to be the block's own position
previous_blockhash_id_same(block_i) == block_i

\* block_i.saturating_sub(1)
previous_blockhash_id(block_i) == IF block_i = 0 THEN 0 ELSE block_i - 1

\* compact_process_block: ok, and the record written as one frame
CmpCallback(g, registry, block_i) ==
    IF ~DecodesAsBlock(g.block_payload) THEN [ok |-> FALSE, rec |-> <<>>]
    ELSE LET es == EntriesOf(g)
             ids == [i \in 1..Len(es) |->
                        [j \in 1..Len(EntryKeys(es[i])) |->
                            Lookup(registry, EntryKeys(es[i])[j])]]
         IN  IF \E i \in 1..Len(ids) : \E j \in 1..Len(ids[i]) : ids[i][j] = 0
             THEN [ok |-> FALSE, rec |-> <<>>]
             ELSE [ok |-> TRUE,
                   rec |-> [header |-> [slot |-> g.block_payload[3],
                                        blockhash |-> block_i,
                                        previous_blockhash |-> previous_blockhash_id(block_i)],
                            txs |-> [i \in 1..Len(es) |-> [account_keys |-> ids[i]]]]]

NoFiles == [bh |-> Absent, bh_tmp |-> Absent, reg |-> Absent,
            cmp |-> Absent, cmp_tmp |-> Absent]

\* nothing in memory: no counter, no sorted keys, no loaded registry
NoMem == [counts |-> <<>>, keys |-> <<>>, registry |-> <<>>, block_count |-> 0]

\* the values of the variables a specification does not use
ReaderIdle ==
    /\ client = "none" /\ pos = 0 /\ group = EmptyGroup /\ results = <<>>
BuildIdle ==
    /\ resume = FALSE /\ rerun = FALSE /\ pc = "off" /\ fs = NoFiles
    /\ mem = NoMem /\ log = <<>> /\ cbCalls = 0 /\ rdErr = FALSE
FrameIdle ==
    /\ sink = <<>> /\ written = <<>> /\ source = <<>> /\ rpos = 0
    /\ frames = <<>> /\ fpc = "off"
NoRegistry == [built |-> FALSE, hashes |-> <<>>, prev_tail |-> <<>>, index |-> <<>>]
NoCall == [op |-> "none"]
NoIndex == [built |-> FALSE, mphf |-> <<>>, values |-> <<>>]
NoOutput == [st |-> "none", txs |-> <<>>, asked |-> <<>>]
KeysIdle ==
    /\ kin = <<>> /\ kpc = "off" /\ kcounts = <<>> /\ kkeys = <<>>
    /\ kindex = NoIndex /\ kout = NoOutput /\ kret = NoCall
BlockhashIdle ==
    /\ bhin = [hashes |-> <<>>, prev |-> <<>>] /\ bh = NoRegistry /\ bhret = NoCall
NoStream == [st |-> "none", events |-> <<>>, strings |-> <<>>, data |-> <<>>]
LogsIdle ==
    /\ loglines = <<>> /\ logpc = "off" /\ parsed = NoStream
    /\ rendered = <<>> /\ reparsed = NoStream
MetaIdle == mdin = <<>> /\ mdout = <<>>
TxIterIdle ==
    /\ tin = <<>> /\ tpos = 0 /\ reusable_meta = <<>>
    /\ has_tx = FALSE /\ has_meta = FALSE /\ tret = NoCall
DecodeIdle == MetaIdle /\ TxIterIdle
LibIdle == BlockhashIdle /\ KeysIdle /\ LogsIdle /\ DecodeIdle

(***************************************************************************)
(* SpecReader: a client calls the reader again and again.                  *)
(***************************************************************************)
InitReader ==
    /\ archive \in Archives
    /\ stream = Stream(archive)
    /\ client \in {"reader", "carstream"}
    /\ pos = 0
    /\ group = EmptyGroup
    /\ results = <<>>
    /\ BuildIdle
    /\ FrameIdle
    /\ LibIdle

\* one call of CarBlockReader::read_until_block_into by its caller
ReadUntilBlockInto ==
    /\ client = "reader"
    /\ Len(results) < MaxCalls
    /\ LET r == read_until_block_into(archive, stream, pos) IN
        /\ pos' = r.pos
        /\ group' = r.group
        /\ results' = Append(results, [ret |-> r.ret, block |-> r.group.block_payload])
    /\ UNCHANGED <<archive, stream, client>>
    /\ UNCHANGED bvars
    /\ UNCHANGED fvars
    /\ UNCHANGED lvars
    /\ UNCHANGED kvars /\ UNCHANGED gvars /\ UNCHANGED mvars /\ UNCHANGED tvars

\* CarStream::next_group: Ok(Some(&group)) when the reader's result is_ok(),
\* Ok(None) otherwise
next_group_ret(r) == IF r.ret # "Err" THEN "Some" ELSE "None"

NextGroup ==
    /\ client = "carstream"
    /\ Len(results) < MaxCalls
    /\ LET r == read_until_block_into(archive, stream, pos) IN
        /\ pos' = r.pos
        /\ group' = r.group
        /\ results' = Append(results, [ret |-> next_group_ret(r),
                                       block |-> r.group.block_payload])
    /\ UNCHANGED <<archive, stream, client>>
    /\ UNCHANGED bvars
    /\ UNCHANGED fvars
    /\ UNCHANGED lvars
    /\ UNCHANGED kvars /\ UNCHANGED gvars /\ UNCHANGED mvars /\ UNCHANGED tvars

NextReader == ReadUntilBlockInto \/ NextGroup

SpecReader == InitReader /\ [][NextReader]_vars

(***************************************************************************)
(* The postcard frame codec (crates/blockzilla-format).                    *)
(***************************************************************************)
\* the records written: unsigned integers, which postcard writes as varints
Records == {5, 300}
\* payloads handed to write_bytes as they are
Payloads == {<<>>, <<7, 9>>}

\* postcard::experimental::serialized_size of a record
serialized_size(v) == IF v < 128 THEN 1 ELSE 2

\* postcard::to_io: the record's bytes
postcard_to_io(v) == IF v < 128 THEN <<v>> ELSE <<128 + (v % 128), v \div 128>>

\* postcard::from_bytes: the record at the front of buf (bytes after it are
\* not looked at), or an error when buf ends inside it
postcard_from_bytes(buf) ==
    IF buf = <<>> THEN [ok |-> FALSE, v |-> 0]
    ELSE IF buf[1] < 128 THEN [ok |-> TRUE, v |-> buf[1]]
    ELSE IF Len(buf) < 2 THEN [ok |-> FALSE, v |-> 0]
    ELSE [ok |-> TRUE, v |-> (buf[1] - 128) + 128 * buf[2]]

\* the four bytes of a length, most significant first
to_be_bytes(n) ==
    <<(n \div 16777216) % 256, (n \div 65536) % 256, (n \div 256) % 256, n % 256>>

\* (len as u32).to_le_bytes(): the low four bytes of len, least significant
\* first
to_le_bytes(n) ==
    <<n % 256, (n \div 256) % 256, (n \div 65536) % 256, (n \div 16777216) % 256>>

\* u32::from_le_bytes
from_le_bytes(b) == b[1] + 256 * b[2] + 65536 * b[3] + 16777216 * b[4]

\* PostcardFramedWriter::write: what it appends to w
write(v) == to_le_bytes(serialized_size(v)) \o postcard_to_io(v)

\* PostcardFramedWriter::write_bytes: what it appends to w
write_bytes(payload) == to_le_bytes(Len(payload)) \o payload

\* PostcardFramedReader::read on the bytes from position p. read_exact that
\* meets the end of the stream fails with UnexpectedEof, which read turns
\* into Ok(None), for the length and for the payload alike
read(bytes, p) ==
    IF Len(bytes) - p < 4
    THEN [ret |-> "None", v |-> 0, buf |-> <<>>, pos |-> Len(bytes)]
    ELSE LET len == from_le_bytes(SubSeq(bytes, p + 1, p + 4)) IN
         IF Len(bytes) - (p + 4) < len
         THEN [ret |-> "None", v |-> 0, buf |-> <<>>, pos |-> Len(bytes)]
         ELSE LET buf == SubSeq(bytes, p + 5, p + 4 + len)
                  d == postcard_from_bytes(buf)
              IN  [ret |-> IF d.ok THEN "Some" ELSE "Err", v |-> d.v,
                   buf |-> buf, pos |-> p + 4 + len]

(***************************************************************************)
(* SpecFrame: records are written through a PostcardFramedWriter, the      *)
(* output (all of it, or the part of it a reader finds) is then read back  *)
(* with a PostcardFramedReader.                                            *)
(***************************************************************************)
ArchiveIdle ==
    /\ archive = [shape |-> <<>>, wide |-> FALSE, ending |-> "eof", cut |-> 0]
    /\ stream = <<>>

InitFrame ==
    /\ ArchiveIdle /\ ReaderIdle /\ BuildIdle /\ LibIdle
    /\ sink = <<>> /\ written = <<>> /\ source = <<>> /\ rpos = 0
    /\ frames = <<>> /\ fpc = "writing"

Write ==
    /\ fpc = "writing" /\ Len(written) < MaxFrames
    /\ \E v \in Records :
        /\ sink' = sink \o write(v)
        /\ written' = Append(written, [api |-> "write", v |-> v,
                                       payload |-> postcard_to_io(v)])
    /\ UNCHANGED <<source, rpos, frames, fpc>>
    /\ UNCHANGED rvars /\ UNCHANGED bvars
    /\ UNCHANGED lvars
    /\ UNCHANGED kvars /\ UNCHANGED gvars /\ UNCHANGED mvars /\ UNCHANGED tvars

WriteBytes ==
    /\ fpc = "writing" /\ Len(written) < MaxFrames
    /\ \E payload \in Payloads :
        /\ sink' = sink \o write_bytes(payload)
        /\ written' = Append(written, [api |-> "write_bytes", v |-> 0,
                                       payload |-> payload])
    /\ UNCHANGED <<source, rpos, frames, fpc>>
    /\ UNCHANGED rvars /\ UNCHANGED bvars
    /\ UNCHANGED lvars
    /\ UNCHANGED kvars /\ UNCHANGED gvars /\ UNCHANGED mvars /\ UNCHANGED tvars

\* the writer is done; a reader is opened over the output, whose stream ends
\* after n bytes (all of them, or fewer when the file is cut short)
Open ==
    /\ fpc = "writing"
    /\ \E n \in 0..Len(sink) : source' = Take(sink, n)
    /\ rpos' = 0 /\ frames' = <<>> /\ fpc' = "reading"
    /\ UNCHANGED <<sink, written>>
    /\ UNCHANGED rvars /\ UNCHANGED bvars
    /\ UNCHANGED lvars
    /\ UNCHANGED kvars /\ UNCHANGED gvars /\ UNCHANGED mvars /\ UNCHANGED tvars

\* one call of PostcardFramedReader::read
Read ==
    /\ fpc = "reading" /\ Len(frames) <= MaxCalls
    /\ LET f == read(source, rpos) IN
        /\ rpos' = f.pos
        /\ frames' = Append(frames, [ret |-> f.ret, v |-> f.v, buf |-> f.buf,
                                     avail |-> Len(source) - rpos])
    /\ UNCHANGED <<sink, written, source, fpc>>
    /\ UNCHANGED rvars /\ UNCHANGED bvars
    /\ UNCHANGED lvars
    /\ UNCHANGED kvars /\ UNCHANGED gvars /\ UNCHANGED mvars /\ UNCHANGED tvars

NextFrame == Write \/ WriteBytes \/ Open \/ Read

SpecFrame == InitFrame /\ [][NextFrame]_vars

(***************************************************************************)
(* The blockhash registry (blockzilla-format/src/blockhash_registry.rs)    *)
(* and the encoding of a transaction's recent blockhash.                   *)
(***************************************************************************)
\* the map left by a sequence of index.insert(k, v): for each key the value
\* of the last insert of that key
Inserted(ops) ==
    [x \in {ops[i].k : i \in 1..Len(ops)} |->
        LET last == CHOOSE i \in 1..Len(ops) :
                        /\ ops[i].k = x
                        /\ \A j \in (i + 1)..Len(ops) : ops[j].k # x
        IN  ops[last].v]

\* the previous-epoch tail inserted with ids counted from the oldest:
\* oldest = -1, newest = -m
TailInserts_oldest_first(prev_tail) ==
    [p \in 1..Len(prev_tail) |-> [k |-> prev_tail[p], v |-> -p]]

\* for (i, h) in prev_tail.iter().enumerate(): insert(h, -((m - i) as i32))
TailInserts(prev_tail) ==
    [p \in 1..Len(prev_tail) |->
        [k |-> prev_tail[p], v |-> -(Len(prev_tail) - (p - 1))]]

\* for (i, h) in hashes.iter().enumerate(): insert(h, i as i32)
HashInserts(hashes) ==
    [p \in 1..Len(hashes) |-> [k |-> hashes[p], v |-> p - 1]]

\* BlockhashRegistry::new
BlockhashRegistry_new(hashes, prev_tail) ==
    LET kept == IF Len(prev_tail) > PREV_TAIL_LEN
                THEN Drop(prev_tail, Len(prev_tail) - PREV_TAIL_LEN)
                ELSE prev_tail
    IN  [built |-> TRUE, hashes |-> hashes, prev_tail |-> kept,
         index |-> Inserted(TailInserts(kept) \o HashInserts(hashes))]

\* load_prev_epoch_tail: the last min(total, PREV_TAIL_LEN) hashes of the file
load_prev_epoch_tail(file) ==
    LET total == Len(file)
        take == IF total < PREV_TAIL_LEN THEN total ELSE PREV_TAIL_LEN
    IN  SubSeq(file, total - take + 1, total)

\* BlockhashRegistry::get: the hash of a signed id, <<>> for None
BlockhashRegistry_get(reg, id) ==
    IF id >= 0
    THEN IF id < Len(reg.hashes) THEN <<reg.hashes[id + 1]>> ELSE <<>>
    ELSE IF -id > Len(reg.prev_tail) THEN <<>>
         ELSE <<reg.prev_tail[Len(reg.prev_tail) - (-id) + 1]>>

\* BlockhashRegistry::lookup
lookup(reg, h) ==
    IF h \in DOMAIN reg.index THEN [some |-> TRUE, id |-> reg.index[h]]
    ELSE [some |-> FALSE, id |-> 0]

\* `id as u32` of an i32, as its two 16-bit halves
as_u32(id) ==
    IF id >= 0 THEN [hi |-> id \div 65536, lo |-> id % 65536]
    ELSE [hi |-> 65535 - ((-id - 1) \div 65536), lo |-> (65536 - ((-id) % 65536)) % 65536]

\* account keys to registry ids; 0 where registry.lookup gives None
KeyIds(keys, registry) == [j \in 1..Len(keys) |-> Lookup(registry, keys[j])]

\* to_compact_transaction of optimize-car-archive/src/compact.rs, the one
\* compact_process_block calls: legacy and V0 alike, a hit is Id(i32), a miss
\* is Nonce(bytes)
to_compact_transaction(tx, registry, bh_index) ==
    LET ids == KeyIds(tx.account_keys, registry)
        \* V0 only: the lookup tables' own keys
        tables == IF tx.version = "v0"
                  THEN KeyIds(tx.address_table_lookups, registry) ELSE <<>>
    IN
    IF \E j \in 1..Len(ids) : ids[j] = 0 THEN [ok |-> FALSE]
    ELSE IF \E j \in 1..Len(tables) : tables[j] = 0 THEN [ok |-> FALSE]
    ELSE [ok |-> TRUE, version |-> tx.version, account_keys |-> ids,
          address_table_lookups |-> tables,
          recent_blockhash |->
            IF tx.recent_blockhash \in DOMAIN bh_index
            THEN [tag |-> "Id", id |-> bh_index[tx.recent_blockhash]]
            ELSE [tag |-> "Nonce", bytes |-> tx.recent_blockhash]]

\* to_compact_transaction of blockzilla-format/src/compact/tx.rs: a legacy
\* message stores the bare i32 id, a V0 message Id(id as u32); a miss is an
\* error in both
format_to_compact_transaction(tx, registry, bh_index) ==
    LET ids == KeyIds(tx.account_keys, registry) IN
    IF \E j \in 1..Len(ids) : ids[j] = 0 THEN [ok |-> FALSE]
    ELSE IF tx.recent_blockhash \notin DOMAIN bh_index THEN [ok |-> FALSE]
    ELSE [ok |-> TRUE, version |-> tx.version, account_keys |-> ids,
          recent_blockhash |->
            IF tx.version = "legacy"
            THEN [tag |-> "i32", id |-> bh_index[tx.recent_blockhash]]
            ELSE [tag |-> "Id", id |-> as_u32(bh_index[tx.recent_blockhash])]]

(***************************************************************************)
(* SpecBlockhash: a blockhash registry is built from an epoch's hashes and *)
(* the previous epoch's file, then asked for ids and used to encode        *)
(* transactions.                                                           *)
(***************************************************************************)
\* the previous epoch's hashes, oldest first; with dup the newest repeats
\* the one before it
PrevFile(n, dup) ==
    [i \in 1..n |-> IF dup /\ i = n /\ n > 1 THEN 1000 + n - 1 ELSE 1000 + i]

PrevLens == {0, 1, 2} \cup {PREV_TAIL_LEN + d : d \in (-1)..MaxOver}

\* hashes of the current epoch: two of its own, and the newest of the
\* previous epoch appearing again
CurHashes(prev) ==
    LET hs == {1, 2} \cup (IF prev = <<>> THEN {} ELSE {prev[Len(prev)]})
    IN  UNION {[1..n -> hs] : n \in 0..MaxHashes}

\* hashes asked for: present in the epoch, absent everywhere, and at the
\* near and far end of the tail
AskedHashes ==
    LET n == Len(bhin.prev) IN
    {1, 2, 9} \cup {bhin.prev[i] :
        i \in {n, n - 1, n - PREV_TAIL_LEN + 1, n - PREV_TAIL_LEN} \cap (1..n)}

InitBlockhash ==
    /\ ArchiveIdle /\ ReaderIdle /\ BuildIdle /\ FrameIdle /\ KeysIdle /\ LogsIdle
    /\ DecodeIdle
    /\ \E n \in PrevLens, dup \in BOOLEAN :
        \E hs \in CurHashes(PrevFile(n, dup)) :
            bhin = [hashes |-> hs, prev |-> PrevFile(n, dup)]
    /\ bh = NoRegistry /\ bhret = NoCall

\* compact::run: load_prev_epoch_tail, then BlockhashRegistry::new
LoadRegistry ==
    /\ ~bh.built
    /\ bh' = BlockhashRegistry_new(bhin.hashes, load_prev_epoch_tail(bhin.prev))
    /\ UNCHANGED <<bhin, bhret>>
    /\ UNCHANGED rvars /\ UNCHANGED bvars /\ UNCHANGED fvars /\ UNCHANGED kvars /\ UNCHANGED gvars /\ UNCHANGED mvars /\ UNCHANGED tvars

\* BlockhashRegistry::new called with the whole previous epoch as the tail
NewRegistry ==
    /\ ~bh.built
    /\ bh' = BlockhashRegistry_new(bhin.hashes, bhin.prev)
    /\ UNCHANGED <<bhin, bhret>>
    /\ UNCHANGED rvars /\ UNCHANGED bvars /\ UNCHANGED fvars /\ UNCHANGED kvars /\ UNCHANGED gvars /\ UNCHANGED mvars /\ UNCHANGED tvars

\* one call of BlockhashRegistry::lookup
LookupHash ==
    /\ bh.built
    /\ \E h \in AskedHashes :
        bhret' = [op |-> "lookup", h |-> h, res |-> lookup(bh, h)]
    /\ UNCHANGED <<bhin, bh>>
    /\ UNCHANGED rvars /\ UNCHANGED bvars /\ UNCHANGED fvars /\ UNCHANGED kvars /\ UNCHANGED gvars /\ UNCHANGED mvars /\ UNCHANGED tvars

\* the optimizer encodes a transaction whose account key is registered
EncodeTx ==
    /\ bh.built
    /\ \E h \in AskedHashes, v \in {"legacy", "v0"} :
        bhret' = [op |-> "encode", impl |-> "optimizer", h |-> h,
                  res |-> to_compact_transaction(
                            [version |-> v, account_keys |-> <<7>>, address_table_lookups |-> <<>>,
                             recent_blockhash |-> h],
                            <<7>>, bh.index)]
    /\ UNCHANGED <<bhin, bh>>
    /\ UNCHANGED rvars /\ UNCHANGED bvars /\ UNCHANGED fvars /\ UNCHANGED kvars /\ UNCHANGED gvars /\ UNCHANGED mvars /\ UNCHANGED tvars

\* the same through the format crate's to_compact_transaction
FormatEncodeTx ==
    /\ bh.built
    /\ \E h \in AskedHashes, v \in {"legacy", "v0"} :
        bhret' = [op |-> "encode", impl |-> "format", h |-> h,
                  res |-> format_to_compact_transaction(
                            [version |-> v, account_keys |-> <<7>>, address_table_lookups |-> <<>>,
                             recent_blockhash |-> h],
                            <<7>>, bh.index)]
    /\ UNCHANGED <<bhin, bh>>
    /\ UNCHANGED rvars /\ UNCHANGED bvars /\ UNCHANGED fvars /\ UNCHANGED kvars /\ UNCHANGED gvars /\ UNCHANGED mvars /\ UNCHANGED tvars

NextBlockhash == LoadRegistry \/ NewRegistry \/ LookupHash \/ EncodeTx \/ FormatEncodeTx

SpecBlockhash == InitBlockhash /\ [][NextBlockhash]_vars

(***************************************************************************)
(* The key registry: the counting pass over a block's transactions, the    *)
(* sorted registry file, the KeyIndex and KeyStore over it, and the        *)
(* encoding pass over the same block.                                      *)
(***************************************************************************)
\* a 32-byte public key is a small number whose order is the byte order; a
\* block mentions the keys 1..MaxKeys and the compute-budget program's key
CB_PK == 9
PubKeys == (1..MaxKeys) \cup {CB_PK}

\* a string that should hold a base58 key: one that parses to `key`, one
\* that does not parse, the empty string
B58(k) == [kind |-> "b58", key |-> k]
BadStr == [kind |-> "bad", key |-> 0]
EmptyStr == [kind |-> "empty", key |-> 0]
\* Pubkey::from_str
Pubkey_from_str(s) == [ok |-> s.kind = "b58", pk |-> s.key]

\* a loaded address as the metadata carries it: a byte vector
Addr32(k) == [len |-> 32, key |-> k]
ShortAddr == [len |-> 31, key |-> 0]

\* ---- the counting pass ---------------------------------------------------
\* the addresses in front of the first one that is not 32 bytes long
Prefix32(addrs) ==
    LET bad == {i \in 1..Len(addrs) : addrs[i].len # 32} IN
    IF bad = {} THEN addrs
    ELSE Take(addrs, (CHOOSE i \in bad : \A j \in bad : i <= j) - 1)

Keys32(addrs) == [i \in 1..Len(addrs) |-> addrs[i].key]

\* the keys counted for one token balance: the mint if it parses, the owner
\* and the program id if non-empty and parsing
TokenBalanceKeys(tb) ==
    (IF Pubkey_from_str(tb.mint).ok THEN <<tb.mint.key>> ELSE <<>>)
    \o (IF tb.owner.kind # "empty" /\ Pubkey_from_str(tb.owner).ok
        THEN <<tb.owner.key>> ELSE <<>>)
    \o (IF tb.program_id.kind # "empty" /\ Pubkey_from_str(tb.program_id).ok
        THEN <<tb.program_id.key>> ELSE <<>>)

\* the keys counted for the message: the account keys, and for V0 the
\* lookup tables' keys
MessageKeys(tx) ==
    tx.account_keys
    \o (IF tx.version = "v0" THEN tx.address_table_lookups ELSE <<>>)

\* the body of registry_process_block's transaction loop: the keys added to
\* the counter, and whether `try_into().unwrap()` panicked on an address
CountTx(tx) ==
    IF tx.metadata = <<>> THEN [panic |-> FALSE, keys |-> MessageKeys(tx)]
    ELSE LET meta == tx.metadata[1]
             w == meta.loaded_writable_addresses
             r == meta.loaded_readonly_addresses
             tbs == meta.pre_token_balances \o meta.post_token_balances
         IN  IF Prefix32(w) # w
             THEN [panic |-> TRUE, keys |-> MessageKeys(tx) \o Keys32(Prefix32(w))]
             ELSE IF Prefix32(r) # r
             THEN [panic |-> TRUE,
                   keys |-> MessageKeys(tx) \o Keys32(w) \o Keys32(Prefix32(r))]
             ELSE [panic |-> FALSE,
                   keys |-> MessageKeys(tx) \o Keys32(w) \o Keys32(r)
                            \o Concat([i \in 1..Len(tbs) |-> TokenBalanceKeys(tbs[i])])]

\* registry_process_block over the block's transactions
RECURSIVE CountBlock(_, _)
CountBlock(txs, counts) ==
    IF txs = <<>> THEN [st |-> "ok", counts |-> counts]
    ELSE LET c == CountTx(Head(txs)) IN
         IF c.panic THEN [st |-> "panic", counts |-> AddAll(counts, c.keys)]
         ELSE CountBlock(Tail(txs), AddAll(counts, c.keys))

\* ---- KeyIndex and KeyStore -----------------------------------------------
\* a call that panicked in place of the id it would have returned
Panic == -1

\* the slots the minimal perfect hash can give a key that is not in the
\* file: none (-1) or any slot below n
StraySlots(n) == {-1} \cup (0..(n - 1))

\* KeyIndex::build over the keys in file order. The hash sends the i-th key
\* of the file to slot i % n and a key outside the file to stray[k];
\* values[slot] is then the 1-based position of the key
KeyIndex_build_over(universe, keys, stray) ==
    LET n == Len(keys)
        mphf == [k \in universe |->
                    IF \E i \in 1..n : keys[i] = k
                    THEN (CHOOSE i \in 1..n : keys[i] = k) % n
                    ELSE stray[k]]
        values == [s \in 1..n |->
                    LET hits == {i \in 1..n : mphf[keys[i]] = s - 1} IN
                    IF hits = {} THEN 0
                    ELSE CHOOSE i \in hits : \A j \in hits : j <= i]
    IN  [built |-> TRUE, mphf |-> mphf, values |-> values]
KeyIndex_build(keys, stray) == KeyIndex_build_over(PubKeys, keys, stray)

\* KeyIndex::lookup_unchecked: values[mphf.get_or_panic(k)]
lookup_unchecked(index, k) ==
    LET idx == index.mphf[k] IN
    IF idx = -1 THEN Panic ELSE index.values[idx + 1]

\* KeyStore::get: the key of a 1-based id, 0 for None
KeyStore_get(keys, id) == IF id >= 1 /\ id <= Len(keys) THEN keys[id] ELSE 0

\* ---- the encoding pass ---------------------------------------------------
\* the value of a set with one element: Only({e : x \in {d}}) is e with x
\* standing for the value of d, computed once
Only(S) == CHOOSE x \in S : TRUE

\* a sequence with its elements computed
Tuple(f) == f \o <<>>

\* the first outcome that is not "ok" stops the function
FirstBad(sts) ==
    LET bad == {i \in 1..Len(sts) : sts[i] # "ok"} IN
    IF bad = {} THEN "ok" ELSE sts[CHOOSE i \in bad : \A j \in bad : i <= j]

IdSt(id) == IF id = Panic THEN "panic" ELSE "ok"

\* map_loaded_addrs: addresses that are not 32 bytes long are skipped
map_loaded_addrs(addrs, index) ==
    Only({Only({[st |-> FirstBad(Tuple([i \in 1..Len(ids) |-> IdSt(ids[i])])),
                 ids |-> ids, asked |-> Keys32(kept)] :
                ids \in {Tuple([i \in 1..Len(kept) |->
                                    lookup_unchecked(index, kept[i].key)])}}) :
         kept \in {SelectSeq(addrs, LAMBDA a : a.len = 32)}})

\* lookup_pid_or_panic: the text must parse
lookup_pid_or_panic(index, s) ==
    IF Pubkey_from_str(s).ok THEN lookup_unchecked(index, s.key) ELSE Panic

\* the keys of the strings that parse, in order
ParsedKeys(strs) ==
    LET ok == SelectSeq(strs, LAMBDA s : Pubkey_from_str(s).ok) IN
    [i \in 1..Len(ok) |-> ok[i].key]

\* the program ids parse_logs resolves: the compute-budget key before the
\* first line, then the program of every "Program <id> invoke [n]" line
parse_logs_pids(lines, index) ==
    Only({Only({[st |-> FirstBad(<<IdSt(cb)>> \o [i \in 1..Len(ids) |-> IdSt(ids[i])]),
                 ids |-> ids,
                 asked |-> <<CB_PK>>
                           \o ParsedKeys([i \in 1..Len(named) |-> named[i].pk])] :
                cb \in {lookup_pid_or_panic(index, B58(CB_PK))},
                ids \in {Tuple([i \in 1..Len(named) |->
                                    lookup_pid_or_panic(index, named[i].pk)])}}) :
         named \in {SelectSeq(lines, LAMBDA l : l.kind = "invoke")}})

\* lookup_pubkey_index_optional: 0 for an empty or unparsable string
lookup_pubkey_index_optional(index, s) ==
    IF s.kind = "empty" THEN 0
    ELSE IF Pubkey_from_str(s).ok THEN lookup_unchecked(index, s.key)
    ELSE 0

NoBalance == [mint_index |-> 0, owner_index |-> 0, program_id_index |-> 0]

\* compact_token_balance: the mint must parse, the amount must parse
compact_token_balance(tb, index) ==
    IF ~Pubkey_from_str(tb.mint).ok
    THEN [st |-> "error", val |-> NoBalance, asked |-> <<>>]
    ELSE Only({
            LET st == FirstBad(<<IdSt(mint_index), IdSt(owner_index),
                                 IdSt(program_id_index),
                                 IF tb.amount_ok THEN "ok" ELSE "error">>)
            IN  [st |-> st,
                 val |-> IF st # "ok" THEN NoBalance
                         ELSE [mint_index |-> mint_index, owner_index |-> owner_index,
                               program_id_index |-> program_id_index],
                 asked |-> ParsedKeys(<<tb.mint, tb.owner, tb.program_id>>)] :
            mint_index \in {lookup_unchecked(index, tb.mint.key)},
            owner_index \in {lookup_pubkey_index_optional(index, tb.owner)},
            program_id_index \in {lookup_pubkey_index_optional(index, tb.program_id)}})

compact_token_balances(tbs, index) ==
    Only({[st |-> FirstBad(Tuple([i \in 1..Len(cs) |-> cs[i].st])),
           vals |-> Tuple([i \in 1..Len(cs) |-> cs[i].val]),
           asked |-> Concat([i \in 1..Len(cs) |-> cs[i].asked])] :
         cs \in {Tuple([i \in 1..Len(tbs) |-> compact_token_balance(tbs[i], index)])}})

\* compact_reward: the pubkey must parse
compact_reward(rw, index) ==
    IF ~Pubkey_from_str(rw.pubkey).ok THEN [st |-> "error", id |-> 0, asked |-> <<>>]
    ELSE Only({[st |-> IdSt(id), id |-> id, asked |-> <<rw.pubkey.key>>] :
                id \in {lookup_unchecked(index, rw.pubkey.key)}})

compact_rewards(rws, index) ==
    Only({[st |-> FirstBad(Tuple([i \in 1..Len(cs) |-> cs[i].st])),
           ids |-> Tuple([i \in 1..Len(cs) |-> cs[i].id]),
           asked |-> Concat([i \in 1..Len(cs) |-> cs[i].asked])] :
         cs \in {Tuple([i \in 1..Len(rws) |-> compact_reward(rws[i], index)])}})

\* the return data's program id: 32 bytes or an error
compact_return_data(meta, index) ==
    IF meta.return_data_none \/ meta.return_data = <<>>
    THEN [st |-> "ok", ids |-> <<>>, asked |-> <<>>]
    ELSE LET rd == meta.return_data[1] IN
         IF rd.program_id.len # 32 THEN [st |-> "error", ids |-> <<>>, asked |-> <<>>]
         ELSE Only({[st |-> IdSt(id), ids |-> <<id>>, asked |-> <<rd.program_id.key>>] :
                     id \in {lookup_unchecked(index, rd.program_id.key)}})

NoCompactMeta ==
    [loaded_writable_indices |-> <<>>, loaded_readonly_indices |-> <<>>,
     logs |-> <<>>, pre_token_balances |-> <<>>, post_token_balances |-> <<>>,
     rewards |-> <<>>, return_data |-> <<>>]

\* compact_meta_from_proto, in the order of its statements
compact_meta_from_proto(meta, index) ==
    Only({
        LET st == FirstBad(<<w.st, r.st, logs.st, pre.st, post.st, rewards.st, rd.st>>)
        IN  [st |-> st,
             \* the keys handed to the index when every statement ran
             asked |-> IF st # "ok" THEN <<>>
                       ELSE w.asked \o r.asked \o logs.asked \o pre.asked \o post.asked
                            \o rewards.asked \o rd.asked,
             meta |-> IF st # "ok" THEN NoCompactMeta
                      ELSE [loaded_writable_indices |-> w.ids,
                            loaded_readonly_indices |-> r.ids,
                            logs |-> logs.ids,
                            pre_token_balances |-> pre.vals,
                            post_token_balances |-> post.vals,
                            rewards |-> rewards.ids,
                            return_data |-> rd.ids]] :
        w \in {map_loaded_addrs(meta.loaded_writable_addresses, index)},
        r \in {map_loaded_addrs(meta.loaded_readonly_addresses, index)},
        logs \in {IF meta.log_messages_none THEN [st |-> "ok", ids |-> <<>>, asked |-> <<>>]
                  ELSE parse_logs_pids(meta.log_messages, index)},
        pre \in {compact_token_balances(meta.pre_token_balances, index)},
        post \in {compact_token_balances(meta.post_token_balances, index)},
        rewards \in {compact_rewards(meta.rewards, index)},
        rd \in {compact_return_data(meta, index)}})

\* the body of compact_process_block's transaction loop
CompactTx(tx, keys, index) ==
    Only({
        IF ~c.ok THEN [st |-> "error", val |-> <<>>, asked |-> <<>>]
        ELSE IF tx.metadata = <<>>
        THEN [st |-> "ok", val |-> <<[tx |-> c, metadata |-> <<>>]>>,
              asked |-> MessageKeys(tx)]
        ELSE Only({
                IF m.st # "ok" THEN [st |-> m.st, val |-> <<>>, asked |-> <<>>]
                ELSE [st |-> "ok", val |-> <<[tx |-> c, metadata |-> <<m.meta>>]>>,
                      asked |-> MessageKeys(tx) \o m.asked] :
                m \in {compact_meta_from_proto(tx.metadata[1], index)}}) :
        c \in {to_compact_transaction(tx, keys, <<>>)}})

\* compact_process_block over the block's transactions: the record's txs, or
\* the first error or panic
CompactTxs(txs, keys, index) ==
    Only({
        LET st == FirstBad(Tuple([i \in 1..Len(cs) |-> cs[i].st])) IN
        [st |-> st,
         txs |-> IF st # "ok" THEN <<>> ELSE Concat([i \in 1..Len(cs) |-> cs[i].val]),
         asked |-> IF st # "ok" THEN <<>> ELSE Concat([i \in 1..Len(cs) |-> cs[i].asked])] :
        cs \in {Tuple([i \in 1..Len(txs) |-> CompactTx(txs[i], keys, index)])}})

(***************************************************************************)
(* SpecKeys: the two passes over one block. The counting pass counts the   *)
(* block's keys, the registry is sorted and written, the index is built    *)
(* over the file, and the encoding pass turns the same transactions into   *)
(* a compact record; before that the index or the store can be asked once. *)
(***************************************************************************)
EmptyMeta ==
    [loaded_writable_addresses |-> <<>>, loaded_readonly_addresses |-> <<>>,
     log_messages_none |-> FALSE, log_messages |-> <<>>,
     pre_token_balances |-> <<>>, post_token_balances |-> <<>>,
     rewards |-> <<>>, return_data_none |-> FALSE, return_data |-> <<>>]

KeyStrs == {B58(k) : k \in PubKeys} \cup {BadStr, EmptyStr}

AddrLists ==
    {<<Addr32(k)>> : k \in PubKeys} \cup {<<ShortAddr>>, <<Addr32(1), ShortAddr>>}

TokenBalances ==
    {[mint |-> m, owner |-> op[1], program_id |-> op[2], amount_ok |-> TRUE] :
        m \in {B58(1), B58(MaxKeys), BadStr, EmptyStr},
        op \in {<<B58(2), B58(1)>>, <<BadStr, EmptyStr>>, <<EmptyStr, BadStr>>}}
    \cup {[mint |-> B58(1), owner |-> EmptyStr, program_id |-> EmptyStr,
           amount_ok |-> FALSE]}

LogLineLists ==
    {<<[kind |-> "invoke", pk |-> s]>> : s \in {B58(k) : k \in PubKeys} \cup {BadStr}}
    \cup {<<[kind |-> "plain", pk |-> EmptyStr]>>}

\* the metadata of a transaction: at most one of its key-bearing fields is
\* filled, with the log messages present or absent
MetasOver(base) ==
    {base}
    \cup {[base EXCEPT !.loaded_writable_addresses = a] : a \in AddrLists}
    \cup {[base EXCEPT !.loaded_readonly_addresses = a] : a \in AddrLists}
    \cup {[base EXCEPT !.pre_token_balances = <<tb>>] : tb \in TokenBalances}
    \cup {[base EXCEPT !.post_token_balances = <<tb>>] : tb \in TokenBalances}
    \cup {[base EXCEPT !.rewards = <<[pubkey |-> s]>>] : s \in KeyStrs}
    \cup {[base EXCEPT !.return_data = <<[program_id |-> a]>>] :
            a \in {Addr32(k) : k \in PubKeys} \cup {ShortAddr}}
    \cup {[base EXCEPT !.return_data = <<[program_id |-> Addr32(1)]>>,
                       !.return_data_none = TRUE]}

Metas ==
    MetasOver([EmptyMeta EXCEPT !.log_messages_none = TRUE])
    \cup MetasOver(EmptyMeta)
    \cup {[EmptyMeta EXCEPT !.log_messages = l] : l \in LogLineLists}

AccountKeySeqs == {<<1>>, <<2, 1>>, <<CB_PK, 1>>}

Messages ==
    {[version |-> "legacy", account_keys |-> ks, address_table_lookups |-> <<>>,
      recent_blockhash |-> 0] : ks \in AccountKeySeqs}
    \cup {[version |-> "v0", account_keys |-> ks, address_table_lookups |-> t,
           recent_blockhash |-> 0] : ks \in AccountKeySeqs, t \in {<<>>, <<MaxKeys>>}}

WithMeta(msg, md) ==
    [version |-> msg.version, account_keys |-> msg.account_keys,
     address_table_lookups |-> msg.address_table_lookups,
     recent_blockhash |-> msg.recent_blockhash, metadata |-> md,
     data_next |-> FALSE, metadata_next |-> FALSE]

\* a transaction node whose data frame or metadata frame names a next frame:
\* the record holds what the bytes of the first frames decode to
ContinuedBlocks ==
    {<<[WithMeta(msg, md) EXCEPT !.data_next = dm[1], !.metadata_next = dm[2]]>> :
        msg \in {s \in Messages : s.account_keys = <<1>>},
        md \in {<<>>, <<EmptyMeta>>},
        dm \in {<<TRUE, FALSE>>, <<FALSE, TRUE>>, <<TRUE, TRUE>>}}

\* the block: one transaction of any shape, then possibly a plain one
Blocks ==
    {<<WithMeta(msg, md)>> :
        msg \in Messages, md \in {<<>>} \cup {<<m>> : m \in Metas}}
    \cup {<<WithMeta(msg, md), WithMeta(second, <<>>)>> :
            msg \in Messages, md \in {<<>>} \cup {<<m>> : m \in Metas},
            second \in {s \in Messages : s.version = "legacy" /\ s.account_keys = <<1>>}}
    \cup ContinuedBlocks

InitKeys ==
    /\ ArchiveIdle /\ ReaderIdle /\ BuildIdle /\ FrameIdle /\ BlockhashIdle /\ LogsIdle
    /\ DecodeIdle
    /\ kin \in Blocks
    /\ kpc = "count" /\ kcounts = <<>> /\ kkeys = <<>>
    /\ kindex = NoIndex /\ kout = NoOutput /\ kret = NoCall

\* build_registry::run, the streaming: registry_process_block on the block
CountPass ==
    /\ kpc = "count"
    /\ LET c == CountBlock(kin, <<>>) IN
        /\ kcounts' = c.counts
        /\ kpc' = IF c.st = "ok" THEN "sort" ELSE "panicked"
    /\ UNCHANGED <<kin, kkeys, kindex, kout, kret>>
    /\ UNCHANGED rvars /\ UNCHANGED bvars /\ UNCHANGED fvars /\ UNCHANGED lvars /\ UNCHANGED gvars /\ UNCHANGED mvars /\ UNCHANGED tvars

\* build_registry::run, the rest: the sort and write_registry
SortAndWrite ==
    /\ kpc = "sort"
    /\ kkeys' = SortedRegistry(kcounts)
    /\ kpc' = "load"
    /\ UNCHANGED <<kin, kcounts, kindex, kout, kret>>
    /\ UNCHANGED rvars /\ UNCHANGED bvars /\ UNCHANGED fvars /\ UNCHANGED lvars /\ UNCHANGED gvars /\ UNCHANGED mvars /\ UNCHANGED tvars

\* the registry file is loaded and KeyIndex::build runs over its keys
LoadIndex ==
    /\ kpc = "load"
    /\ \E stray \in [PubKeys \ {kkeys[i] : i \in 1..Len(kkeys)} -> StraySlots(Len(kkeys))] :
        kindex' = KeyIndex_build(kkeys, stray)
    /\ kpc' = "encode"
    /\ UNCHANGED <<kin, kcounts, kkeys, kout, kret>>
    /\ UNCHANGED rvars /\ UNCHANGED bvars /\ UNCHANGED fvars /\ UNCHANGED lvars /\ UNCHANGED gvars /\ UNCHANGED mvars /\ UNCHANGED tvars

\* one call of KeyIndex::lookup_unchecked
LookupUnchecked ==
    /\ kpc = "encode" /\ kret = NoCall
    /\ \E k \in PubKeys :
        kret' = [op |-> "lookup_unchecked", arg |-> k, res |-> lookup_unchecked(kindex, k)]
    /\ UNCHANGED <<kin, kpc, kcounts, kkeys, kindex, kout>>
    /\ UNCHANGED rvars /\ UNCHANGED bvars /\ UNCHANGED fvars /\ UNCHANGED lvars /\ UNCHANGED gvars /\ UNCHANGED mvars /\ UNCHANGED tvars

\* one call of KeyStore::get
StoreGet ==
    /\ kpc = "encode" /\ kret = NoCall
    /\ \E id \in 0..(Len(kkeys) + 1) :
        kret' = [op |-> "get", arg |-> id, res |-> KeyStore_get(kkeys, id)]
    /\ UNCHANGED <<kin, kpc, kcounts, kkeys, kindex, kout>>
    /\ UNCHANGED rvars /\ UNCHANGED bvars /\ UNCHANGED fvars /\ UNCHANGED lvars /\ UNCHANGED gvars /\ UNCHANGED mvars /\ UNCHANGED tvars

\* compact::run, the streaming: compact_process_block on the block
EncodePass ==
    /\ kpc = "encode" /\ kret = NoCall
    /\ kout' = CompactTxs(kin, kkeys, kindex)
    /\ kpc' = "done"
    /\ UNCHANGED <<kin, kcounts, kkeys, kindex, kret>>
    /\ UNCHANGED rvars /\ UNCHANGED bvars /\ UNCHANGED fvars /\ UNCHANGED lvars /\ UNCHANGED gvars /\ UNCHANGED mvars /\ UNCHANGED tvars

NextKeys ==
    CountPass \/ SortAndWrite \/ LoadIndex \/ LookupUnchecked \/ StoreGet \/ EncodePass

SpecKeys == InitKeys /\ [][NextKeys]_vars

(***************************************************************************)
(* Log-stream compactor (blockzilla-format/src/compact/log.rs and          *)
(* program_logs/).  A text is the sequence of its tokens: a token is a run *)
(* of characters that no rule of the parser splits, and " " is one space.  *)
(* Concatenation of texts is \o, so "0x" followed by "1F" is <<"0x","1F">>. *)
(***************************************************************************)

SP == " "
\* the text of words separated by single spaces
Words(ws) == [i \in 1..(2 * Len(ws) - 1) |-> IF i % 2 = 1 THEN ws[(i + 1) \div 2] ELSE SP] \o <<>>
starts_with(s, p) == Len(p) <= Len(s) /\ Take(s, Len(p)) = p
ends_with(s, p) == Len(p) <= Len(s) /\ Drop(s, Len(s) - Len(p)) = p
\* str::strip_prefix and str::strip_suffix: None is [some |-> FALSE]
strip_prefix(s, p) ==
    [some |-> starts_with(s, p), rest |-> IF starts_with(s, p) THEN Drop(s, Len(p)) ELSE <<>>]
strip_suffix(s, p) ==
    [some |-> ends_with(s, p), rest |-> IF ends_with(s, p) THEN Take(s, Len(s) - Len(p)) ELSE <<>>]
\* str::find: the byte offset of the first match, here the number of tokens
\* before it; None is -1
find(s, p) ==
    LET hits == {i \in 0..(Len(s) - Len(p)) : SubSeq(s, i + 1, i + Len(p)) = p} IN
    IF hits = {} THEN -1 ELSE CHOOSE i \in hits : \A j \in hits : i <= j
rfind(s, p) ==
    LET hits == {i \in 0..(Len(s) - Len(p)) : SubSeq(s, i + 1, i + Len(p)) = p} IN
    IF hits = {} THEN -1 ELSE CHOOSE i \in hits : \A j \in hits : j <= i
trim_end(s) ==
    LET keep == {i \in 1..Len(s) : s[i] # SP} IN
    IF keep = {} THEN <<>> ELSE Take(s, CHOOSE i \in keep : \A j \in keep : j <= i)
trim_start(s) ==
    LET keep == {i \in 1..Len(s) : s[i] # SP} IN
    IF keep = {} THEN <<>> ELSE Drop(s, (CHOOSE i \in keep : \A j \in keep : i <= j) - 1)
trim(s) == trim_start(trim_end(s))
\* str::split_once: the two sides of the first match
split_once(s, p) ==
    LET at == find(s, p) IN
    [some |-> at # -1,
     a |-> IF at = -1 THEN <<>> ELSE Take(s, at),
     b |-> IF at = -1 THEN <<>> ELSE Drop(s, at + Len(p))]
\* str::split_whitespace: the tokens that are not spaces
split_whitespace(s) == SelectSeq(s, LAMBDA t : t # SP)
\* [T]::join(" ")
join(ts) == IF ts = <<>> THEN <<>> ELSE Words(ts)

\* ---- numbers as text ---------------------------------------------------
\* the decimal texts of the model and the value each one has; "1,000" is
\* the runtime's grouping, "007" and "+5" are accepted by str::parse
DecimalTexts == {"0", "1", "5", "007", "+5", "7", "255", "300", "1000", "1,000", "2,000", "2000"}
DecimalValue(t) ==
    CASE t = "0" -> 0 [] t = "1" -> 1 [] t \in {"5", "+5"} -> 5 [] t \in {"7", "007"} -> 7
      [] t = "255" -> 255 [] t = "300" -> 300 [] t \in {"1000", "1,000"} -> 1000
      [] t \in {"2000", "2,000"} -> 2000
HasComma(t) == t \in {"1,000", "2,000"}
\* "{}" of an integer
Display(n) ==
    CASE n = 0 -> "0" [] n = 1 -> "1" [] n = 5 -> "5" [] n = 7 -> "7" [] n = 255 -> "255"
      [] n = 300 -> "300" [] n = 1000 -> "1000" [] n = 2000 -> "2000"
\* str::parse::<u32>() of a text: None is -1
parse_int(s) ==
    IF Len(s) = 1 /\ s[1] \in DecimalTexts /\ ~HasComma(s[1]) THEN DecimalValue(s[1]) ELSE -1
\* parse_u32_commas, parse_u64_commas: trim, drop the commas, parse
parse_u32_commas(s) ==
    LET t == SelectSeq(trim(s), LAMBDA x : x # ",") IN
    IF Len(t) = 1 /\ t[1] \in DecimalTexts THEN DecimalValue(t[1]) ELSE -1
\* hexadecimal digits after "0x"
HexTexts == {"1", "1F", "1f", "+1f", "1770"}
HexValue(t) == CASE t = "1" -> 1 [] t \in {"1F", "1f", "+1f"} -> 31 [] t = "1770" -> 6000
\* "{:x}"
LowerHex(n) == CASE n = 1 -> "1" [] n = 31 -> "1f" [] n = 6000 -> "1770"
\* u32::from_str_radix(hex.trim(), 16): None is -1
from_str_radix16(s) ==
    LET t == trim(s) IN
    IF Len(t) = 1 /\ t[1] \in HexTexts THEN HexValue(t[1]) ELSE -1

\* ---- base64 -------------------------------------------------------------
\* the tokens BASE64 decodes, and the bytes of each
Base64Texts == {"QQ==", "QUI="}
Base64Decode(t) == IF t = "QQ==" THEN <<65>> ELSE <<65, 66>>
Base64Encode(bytes) == IF bytes = <<65>> THEN "QQ==" ELSE "QUI="

\* ---- pubkeys as text ----------------------------------------------------
\* key 1 is the SPL Token program, key 2 the Token-2022 program, key 3 the
\* Associated Token Account program
TOKEN_STR_ID == "TokenkegQfeZyiNwAJbNbGKPFXCWuBvf9Ss623VQ5DA"
TOKEN_2022_STR_ID == "TokenzQdBNbLqP5VEhdkAS6EPFLC1PHnBqCXEpPxuEb"
ATA_STR_ID == "ATokenGPvbdGVxr1b2hvZbsiqW5xWH25efTNsLJA8knL"
CB_PK_STR == "ComputeBudget111111111111111111111111111111"
\* Pubkey::to_string
Pubkey_to_string(k) ==
    CASE k = 1 -> TOKEN_STR_ID [] k = 2 -> TOKEN_2022_STR_ID [] k = CB_PK -> CB_PK_STR
      [] k = 3 -> ATA_STR_ID
      [] k = 4 -> "11111111111111111111111111111111"
      [] OTHER -> "Memo1UhkJRfHyvLMcVucJwxXeuD728EqVDDwQDxFMNo"
\* key 4 is the System program; the log lines can name it whatever MaxKeys is
SYSTEM_PK == 4
LogPubKeys == PubKeys \cup {SYSTEM_PK}
\* Pubkey::from_str of a text: a single token that is a key's base58
Pubkey_from_text(s) ==
    LET ks == {k \in LogPubKeys : s = <<Pubkey_to_string(k)>>} IN
    [ok |-> ks # {}, pk |-> IF ks = {} THEN 0 ELSE CHOOSE k \in ks : TRUE]

\* the registry file of the epoch and the index over it: every key the
\* lines can name is in it
LogKeys ==
    [i \in 1..((IF MaxKeys < SYSTEM_PK THEN SYSTEM_PK ELSE MaxKeys) + 1) |->
        IF i = 1 THEN 1 ELSE IF i = 2 THEN CB_PK ELSE i - 1] \o <<>>
LogIndex == KeyIndex_build_over(LogPubKeys, LogKeys, <<>>)

\* ---- StringTable and DataTable -----------------------------------------
\* StringTable::push and DataTable::push: the id is the position, from 0
\* a push that hands out the length after the push
Pushed_id_after(table, x) == [id |-> Len(table) + 1, table |-> Append(table, x)]
Pushed(table, x) == [id |-> Len(table), table |-> Append(table, x)]
\* StringTable::resolve and DataTable::resolve
resolve(table, id) == table[id + 1]
\* DataTable::render_array
render_array(chunks) == join([i \in 1..Len(chunks) |-> Base64Encode(chunks[i])] \o <<>>)

\* a closed table of canonical texts: rows are <<variant, text>>
TableParse(table, text) ==
    LET hits == {r \in table : r[2] = text} IN
    [some |-> hits # {}, v |-> IF hits = {} THEN "" ELSE (CHOOSE r \in hits : TRUE)[1]]
TableStr(table, v) == (CHOOSE r \in table : r[1] = v)[2]

\* ---- program_logs/token.rs ----------------------------------------------
\* rows of TokenErrorLog::parse / as_str (the other rows have the same shape)
TokenErrors ==
    {<<"InsufficientFunds", <<"Error", ":", SP>> \o Words(<<"insufficient", "funds">>)>>,
     <<"OwnerMismatch", <<"Error", ":", SP>> \o Words(<<"owner", "does", "not", "match">>)>>}
\* rows of the instruction names of TokenLog::parse / as_str
TokenInstructions ==
    {<<"InstructionTransfer", <<"Transfer">>>>,
     <<"InstructionCloseAccount", <<"CloseAccount">>>>,
     <<"GetAccountDataSize", <<"GetAccountDataSize">>>>}
PleaseUpgradeText ==
    Words(<<"Please", "upgrade", "to", "SPL", "Token", "2022", "for", "immutable", "owner", "support">>)
InstructionPrefix == <<"Instruction", ":", SP>>
TokenLog_parse(text) ==
    LET e == TableParse(TokenErrors, text)
        name == strip_prefix(text, InstructionPrefix)
        ix == TableParse(TokenInstructions, trim(name.rest))
    IN  IF e.some THEN [some |-> TRUE, v |-> <<"Error", e.v>>]
        ELSE IF text = PleaseUpgradeText THEN [some |-> TRUE, v |-> <<"PleaseUpgrade">>]
        ELSE IF name.some /\ ix.some THEN [some |-> TRUE, v |-> <<ix.v>>]
        ELSE [some |-> FALSE, v |-> <<>>]
TokenLog_as_str(v) ==
    IF v[1] = "Error" THEN TableStr(TokenErrors, v[2])
    ELSE IF v[1] = "PleaseUpgrade" THEN PleaseUpgradeText
    ELSE InstructionPrefix \o TableStr(TokenInstructions, v[1])

\* ---- program_logs/associated_token_account.rs ---------------------------
AtaErrors ==
    {<<"InvalidSeeds", <<"Error", ":", SP>>
        \o Words(<<"Associated", "address", "does", "not", "match", "seed", "derivation">>)>>,
     <<"MissingRequiredSignature",
        Words(<<"Wallet", "of", "the", "owner", "associated", "token", "account", "must", "sign">>)>>,
     <<"IllegalMintOwner",
        Words(<<"Owner", "mint", "not", "owned", "by", "provided", "token", "program">>)>>}
AtaTokenErrorLog_parse(text) == TableParse(AtaErrors, text)
AtaTokenErrorLog_as_str(v) == TableStr(AtaErrors, v)

\* ---- program_logs/token_2022.rs -----------------------------------------
Token2022Errors ==
    {<<"InsufficientFunds", <<"Error", ":", SP>> \o Words(<<"insufficient", "funds">>)>>,
     <<"NonTransferable", Words(<<"Transfer", "is", "disabled", "for", "this", "mint">>)>>,
     <<"ImmutableOwner", Words(<<"The", "owner", "authority", "cannot", "be", "changed">>)>>}
ResizePrefix == Words(<<"account", "needs", "resize">>) \o <<",", SP, "+">>
ResizeSuffix == <<SP, "bytes">>
HarvestPrefix == Words(<<"Error", "harvesting", "from">>) \o <<SP>>
\* parse_one_braced
parse_one_braced(text, prefix, suffix) ==
    LET rest == strip_prefix(text, prefix)
        inner == strip_suffix(rest.rest, suffix)
    IN  [some |-> rest.some /\ inner.some, x |-> trim(inner.rest)]
\* parse_two_braced
parse_two_braced(text, prefix, mid) ==
    LET rest == strip_prefix(text, prefix)
        ab == split_once(rest.rest, mid)
    IN  [some |-> rest.some /\ ab.some, a |-> trim(ab.a), b |-> trim(ab.b)]
\* lookup_pubkey_id_or_none, system_program::parse_pubkey_id: None is -1
lookup_pubkey_id_or_none(index, pk_txt) ==
    LET pk == Pubkey_from_text(trim(pk_txt)) IN
    IF pk.ok THEN lookup_unchecked(index, pk.pk) ELSE -1
\* Token2022Log::parse: [some, log, st]
Token2022Log_parse(payload, index, st) ==
    LET e == TableParse(Token2022Errors, payload)
        none == [some |-> FALSE, log |-> <<>>, st |-> st]
    IN  IF e.some THEN [some |-> TRUE, log |-> [v |-> <<"Error", e.v>>], st |-> st]
        ELSE Only({IF x.some /\ parse_int(x.x) # -1
                   THEN [some |-> TRUE, st |-> st,
                         log |-> [v |-> <<"AccountNeedsResizePlusBytesDebug">>,
                                  bytes |-> parse_int(x.x)]]
                   ELSE IF h.some
                   THEN Only({IF key = -1 THEN none
                              ELSE [some |-> TRUE, st |-> Append(st, h.b),
                                    log |-> [v |-> <<"ErrorHarvestingFrom">>, account_key |-> key,
                                             error |-> Len(st)]] :
                              key \in {lookup_pubkey_id_or_none(index, h.a)}})
                   ELSE none :
                   x \in {parse_one_braced(payload, ResizePrefix, ResizeSuffix)},
                   h \in {parse_two_braced(payload, HarvestPrefix, <<":", SP>>)}})
\* token_2022::pubkey_id_to_string
pubkey_id_to_string(store, id) ==
    IF id = 0 THEN "<invalid-pubkey-id-0>"
    ELSE IF KeyStore_get(store, id) = 0 THEN "<pubkey-id-oob>"
    ELSE Pubkey_to_string(KeyStore_get(store, id))
\* Token2022Log::as_str
Token2022Log_as_str(plog, st, store) ==
    IF plog.v[1] = "Error" THEN TableStr(Token2022Errors, plog.v[2])
    ELSE IF plog.v[1] = "AccountNeedsResizePlusBytesDebug"
    THEN ResizePrefix \o <<Display(plog.bytes)>> \o ResizeSuffix
    ELSE HarvestPrefix \o <<pubkey_id_to_string(store, plog.account_key), ":", SP>>
            \o resolve(st, plog.error)

\* ---- program_logs/mod.rs ------------------------------------------------
ErrorCodeMid == <<".", SP, "Error", SP, "Code", ":", SP>>
ErrorNumberMid == <<".", SP, "Error", SP, "Number", ":", SP>>
ErrorMessageMid == <<".", SP, "Error", SP, "Message", ":", SP>>
ThrownPrefix == Words(<<"AnchorError", "thrown", "in">>) \o <<SP>>
OccurredPrefix == <<"AnchorError", SP, "occurred">> \o ErrorCodeMid
\* parse_anchor_instruction: [some, log, st]
parse_anchor_instruction(text, st) ==
    LET name == strip_prefix(text, InstructionPrefix)
        p == Pushed(st, trim(name.rest))
    IN  IF name.some /\ trim(name.rest) # <<>>
        THEN [some |-> TRUE, log |-> [pl |-> "AnchorInstruction", name |-> p.id], st |-> p.table]
        ELSE [some |-> FALSE, log |-> <<>>, st |-> st]
\* parse_error_fields: [some, code, number, msg, st]; the code is pushed
\* before the number is parsed, so a None can leave a string behind
parse_error_fields(text, st) ==
    Only({IF ~c.some THEN [some |-> FALSE, st |-> st]
          ELSE Only({IF ~m.some THEN [some |-> FALSE, st |-> st]
                     ELSE Only({IF number = -1 THEN [some |-> FALSE, st |-> code.table]
                                ELSE [some |-> TRUE, code |-> code.id, number |-> number,
                                      msg |-> Len(code.table),
                                      st |-> Append(code.table,
                                                    trim(IF dot.some THEN dot.rest ELSE m.b))] :
                                code \in {Pushed(st, trim(c.a))},
                                number \in {parse_int(trim(m.a))},
                                dot \in {strip_suffix(m.b, <<".">>)}}) :
                     m \in {split_once(c.b, ErrorMessageMid)}}) :
          c \in {split_once(text, ErrorNumberMid)}})
\* parse_anchor_error: [some, log, st]
parse_anchor_error(text, st) ==
    LET thrown == strip_prefix(text, ThrownPrefix)
        occurred == strip_prefix(text, OccurredPrefix)
        none == [some |-> FALSE, log |-> <<>>, st |-> st]
    IN  IF thrown.some
        THEN Only({IF ~lt.some \/ rfind(lt.a, <<":">>) = -1 THEN none
                   ELSE Only({IF line = -1 THEN [some |-> FALSE, log |-> <<>>, st |-> file.table]
                              ELSE Only({IF ~ft.some THEN [some |-> FALSE, log |-> <<>>, st |-> ft.st]
                                         ELSE [some |-> TRUE, st |-> ft.st,
                                               log |-> [pl |-> "AnchorErrorThrown", file |-> file.id,
                                                        line |-> line, code |-> ft.code,
                                                        number |-> ft.number, msg |-> ft.msg]] :
                                         ft \in {parse_error_fields(lt.b, file.table)}}) :
                              file \in {Pushed(st, trim(Take(lt.a, rfind(lt.a, <<":">>))))},
                              line \in {parse_int(trim(Drop(lt.a, rfind(lt.a, <<":">>) + 1)))}}) :
                   lt \in {split_once(thrown.rest, ErrorCodeMid)}})
        ELSE IF occurred.some
        THEN Only({IF ~fo.some THEN [some |-> FALSE, log |-> <<>>, st |-> fo.st]
                   ELSE [some |-> TRUE, st |-> fo.st,
                         log |-> [pl |-> "AnchorErrorOccurred", code |-> fo.code,
                                  number |-> fo.number, msg |-> fo.msg]] :
                   fo \in {parse_error_fields(occurred.rest, st)}})
        ELSE none
\* the tail both dispatchers share: the anchor error, then Unknown
AnchorErrorOrUnknown(payload, st) ==
    Only({IF a.some THEN [log |-> a.log, st |-> a.st]
          ELSE [log |-> [pl |-> "Unknown", text |-> Len(a.st)], st |-> Append(a.st, payload)] :
          a \in {parse_anchor_error(payload, st)}})
\* parse_program_log_no_id: [log, st]
parse_program_log_no_id(payload, index, st) ==
    LET t == TokenLog_parse(payload)
        a == AtaTokenErrorLog_parse(payload)
    IN  IF t.some THEN [log |-> [pl |-> "Token", v |-> t.v], st |-> st]
        ELSE IF a.some THEN [log |-> [pl |-> "Ata", v |-> <<a.v>>], st |-> st]
        ELSE Only({IF i.some THEN [log |-> i.log, st |-> i.st]
                   ELSE Only({IF t22.some
                              THEN [log |-> [pl |-> "Token2022", t |-> t22.log], st |-> t22.st]
                              ELSE AnchorErrorOrUnknown(payload, st) :
                              t22 \in {Token2022Log_parse(payload, index, st)}}) :
                   i \in {parse_anchor_instruction(payload, st)}})
\* try_parse_program_log_with_table: [some, log, st]; the parser is picked
\* by the text of the program id
try_parse_program_log_with_table(program, payload, index, st) ==
    LET t == TokenLog_parse(payload)
        a == AtaTokenErrorLog_parse(payload)
        none == [some |-> FALSE, log |-> <<>>, st |-> st]
    IN  IF program = <<TOKEN_STR_ID>>
        THEN IF t.some THEN [some |-> TRUE, log |-> [pl |-> "Token", v |-> t.v], st |-> st] ELSE none
        ELSE IF program = <<TOKEN_2022_STR_ID>>
        THEN Only({IF t22.some
                   THEN [some |-> TRUE, log |-> [pl |-> "Token2022", t |-> t22.log], st |-> t22.st]
                   ELSE none :
                   t22 \in {Token2022Log_parse(payload, index, st)}})
        ELSE IF program = <<ATA_STR_ID>>
        THEN IF a.some THEN [some |-> TRUE, log |-> [pl |-> "Ata", v |-> <<a.v>>], st |-> st] ELSE none
        ELSE none
\* parse_program_log_for_program: [log, st]
parse_program_log_for_program(program, payload, index, st) ==
    Only({IF w.some THEN [log |-> w.log, st |-> w.st]
          ELSE Only({IF i.some THEN [log |-> i.log, st |-> i.st]
                     ELSE AnchorErrorOrUnknown(payload, st) :
                     i \in {parse_anchor_instruction(payload, st)}}) :
          w \in {try_parse_program_log_with_table(program, payload, index, st)}})
\* the arm of render_program_log without the closing full stop
AnchorErrorOccurred_render_no_dot(plog, st) ==
    OccurredPrefix \o resolve(st, plog.code) \o ErrorNumberMid \o <<Display(plog.number)>>
        \o ErrorMessageMid \o resolve(st, plog.msg)
\* render_program_log, the arm of AnchorErrorOccurred
AnchorErrorOccurred_render(plog, st) ==
    OccurredPrefix \o resolve(st, plog.code) \o ErrorNumberMid \o <<Display(plog.number)>>
        \o ErrorMessageMid \o resolve(st, plog.msg) \o <<".">>
\* render_program_log
render_program_log(plog, store, st) ==
    CASE plog.pl = "Token" -> TokenLog_as_str(plog.v)
      [] plog.pl = "Token2022" -> Token2022Log_as_str(plog.t, st, store)
      [] plog.pl = "Ata" -> AtaTokenErrorLog_as_str(plog.v[1])
      [] plog.pl = "AnchorInstruction" -> InstructionPrefix \o resolve(st, plog.name)
      [] plog.pl = "AnchorErrorOccurred" -> AnchorErrorOccurred_render(plog, st)
      [] plog.pl = "AnchorErrorThrown" ->
            ThrownPrefix \o resolve(st, plog.file) \o <<":", Display(plog.line)>> \o ErrorCodeMid
                \o resolve(st, plog.code) \o ErrorNumberMid \o <<Display(plog.number)>>
                \o ErrorMessageMid \o resolve(st, plog.msg) \o <<".">>
      [] plog.pl = "Unknown" -> resolve(st, plog.text)

\* ---- program_logs/system_program.rs -------------------------------------
MismatchMid == <<SP>> \o Words(<<"does", "not", "match", "derived", "address">>) \o <<SP>>
AlreadyInUse == <<SP>> \o Words(<<"already", "in", "use">>)
MustSign == <<SP>> \o Words(<<"must", "sign">>)
\* the word from between two backquotes (a backquote cannot be written in a
\* string here, so the token spells it out)
FROM_QUOTED == "<backquote>from<backquote>"
MustNotCarryData == <<"Transfer", ":", SP>> \o Words(<<FROM_QUOTED, "must", "not", "carry", "data">>)
AdvanceNonceEmpty ==
    Words(<<"Advance", "nonce", "account">>) \o <<":", SP>>
        \o Words(<<"recent", "blockhash", "list", "is", "empty">>)
InitializeNonceEmpty ==
    Words(<<"Initialize", "nonce", "account">>) \o <<":", SP>>
        \o Words(<<"recent", "blockhash", "list", "is", "empty">>)
AuthorizeNoncePrefix == Words(<<"Authorize", "nonce", "account">>) \o <<":", SP>>
InsufficientPrefix == <<"Transfer", ":", SP>> \o Words(<<"insufficient", "lamports">>) \o <<SP>>
\* parse_between: "none", "some" with the text between, or "panic" when the
\* prefix and the suffix overlap in the line (the slice start is past its end)
parse_between(line, prefix, suffix) ==
    IF ~starts_with(line, prefix) \/ ~ends_with(line, suffix) THEN [st |-> "none", x |-> <<>>]
    ELSE IF Len(prefix) > Len(line) - Len(suffix) THEN [st |-> "panic", x |-> <<>>]
    ELSE [st |-> "some", x |-> SubSeq(line, Len(prefix) + 1, Len(line) - Len(suffix))]
\* parse_debug_address_to_pubkey_id: None is -1
parse_debug_address_to_pubkey_id(index, addr_txt) ==
    LET s == trim(addr_txt)
        dbg == strip_prefix(s, <<"Address", SP, "{">>)
        a1 == strip_prefix(trim(dbg.rest), <<"address", ":">>)
        a2 == strip_prefix(trim(dbg.rest), <<"address", SP, ":">>)
    IN  IF dbg.some
        THEN IF ~a1.some /\ ~a2.some THEN -1
             ELSE Only({Only({lookup_pubkey_id_or_none(index,
                                IF ends = {} THEN inner
                                ELSE Take(inner, (CHOOSE i \in ends : \A j \in ends : i <= j) - 1)) :
                              ends \in {{i \in 1..Len(inner) : inner[i] \in {SP, "}"}}}}) :
                        inner \in {trim(IF a1.some THEN a1.rest ELSE a2.rest)}})
        ELSE lookup_pubkey_id_or_none(index, s)
\* the four "account {:?} ..." lines: <<variant, prefix, suffix>>
SystemAddrLines ==
    <<<<"CreateAccountAlreadyInUse", <<"Create", SP, "Account", ":", SP, "account", SP>>, AlreadyInUse>>,
      <<"AllocateAlreadyInUse", <<"Allocate", ":", SP, "account", SP>>, AlreadyInUse>>,
      <<"AllocateToMustSign", <<"Allocate", ":", SP, "'to'", SP, "account", SP>>, MustSign>>,
      <<"AssignAccountMustSign", <<"Assign", ":", SP, "account", SP>>, MustSign>>>>
\* the two "address X does not match derived address Y" lines
SystemMismatchLines ==
    <<<<"CreateAddressMismatch", <<"Create", ":", SP, "address", SP>>>>,
      <<"TransferFromAddressMismatch", <<"Transfer", ":", SP, "'from'", SP, "address", SP>>>>>>
SysNone(st) == [st |-> "none", sys |-> <<>>, strings |-> st]
SysSome(sys, st) == [st |-> "some", sys |-> sys, strings |-> st]
\* the rules of SystemProgramLog::parse after the address lines
SystemParseRest(text, index, st) ==
    LET alloc == strip_prefix(text, <<"Allocate", ":", SP, "requested", SP>>)
        amax == split_once(alloc.rest, <<",", SP, "max", SP, "allowed", SP>>)
        from == strip_prefix(text, <<"Transfer", ":", SP, FROM_QUOTED, SP, "account", SP>>)
        fpk == strip_suffix(from.rest, MustSign)
        ins == strip_prefix(text, InsufficientPrefix)
        need == split_once(ins.rest, <<",", SP, "need", SP>>)
        auth == strip_prefix(text, AuthorizeNoncePrefix)
    IN  IF alloc.some /\ amax.some
        THEN Only({IF x = -1 \/ y = -1 THEN SysNone(st)
                   ELSE SysSome([s |-> "AllocateRequestedTooLarge",
                                 requested |-> x, max_allowed |-> y], st) :
                   x \in {parse_u32_commas(amax.a)}, y \in {parse_u32_commas(amax.b)}})
        ELSE IF text = MustNotCarryData THEN SysSome([s |-> "TransferFromMustNotCarryData"], st)
        ELSE IF from.some /\ fpk.some
        THEN IF lookup_pubkey_id_or_none(index, fpk.rest) = -1 THEN SysNone(st)
             ELSE SysSome([s |-> "TransferFromMustSign",
                           from |-> lookup_pubkey_id_or_none(index, fpk.rest)], st)
        ELSE IF ins.some
        THEN IF need.some
             THEN Only({IF x = -1 \/ y = -1 THEN SysNone(st)
                        ELSE SysSome([s |-> "TransferInsufficient", have |-> x, need |-> y], st) :
                        x \in {parse_u32_commas(need.a)}, y \in {parse_u32_commas(need.b)}})
             ELSE SysSome([s |-> "Unparsed", text |-> Len(st)], Append(st, text))
        ELSE IF text = AdvanceNonceEmpty THEN SysSome([s |-> "AdvanceNonceRecentBlockhashesEmpty"], st)
        ELSE IF text = InitializeNonceEmpty
        THEN SysSome([s |-> "InitializeNonceRecentBlockhashesEmpty"], st)
        ELSE IF auth.some
        THEN SysSome([s |-> "AuthorizeNonceAccount", msg |-> Len(st)], Append(st, auth.rest))
        ELSE SysNone(st)
\* SystemProgramLog::parse: [st, sys, strings], st "none" | "some" | "panic"
SystemProgramLog_parse(text0, index, st) ==
    LET text == trim(text0)
        ix == strip_prefix(text, InstructionPrefix)
        mm == {i \in 1..Len(SystemMismatchLines) :
                /\ starts_with(text, SystemMismatchLines[i][2])
                /\ find(Drop(text, Len(SystemMismatchLines[i][2])), MismatchMid) # -1}
        m == CHOOSE i \in mm : \A j \in mm : i <= j
        xy == split_once(Drop(text, Len(SystemMismatchLines[m][2])), MismatchMid)
        aa == {i \in 1..Len(SystemAddrLines) :
                parse_between(text, SystemAddrLines[i][2], SystemAddrLines[i][3]).st # "none"}
    IN  IF ix.some
        THEN IF trim(ix.rest) = <<"RevokePendingActivation">>
             THEN SysSome([s |-> "Instruction", ix |-> "RevokePendingActivation"], st)
             ELSE SysNone(st)
        ELSE IF mm # {}
        THEN Only({IF x = -1 \/ y = -1 THEN SysNone(st)
                   ELSE SysSome([s |-> SystemMismatchLines[m][1],
                                 provided_addr |-> x, derived_addr |-> y], st) :
                   x \in {lookup_pubkey_id_or_none(index, xy.a)},
                   y \in {lookup_pubkey_id_or_none(index, xy.b)}})
        ELSE IF aa # {}
        THEN Only({Only({IF between.st = "panic" THEN [st |-> "panic", sys |-> <<>>, strings |-> st]
                         ELSE Only({IF addr = -1 THEN SysNone(st)
                                    ELSE SysSome([s |-> SystemAddrLines[a][1], addr |-> addr], st) :
                                    addr \in {parse_debug_address_to_pubkey_id(index, between.x)}}) :
                         between \in {parse_between(text, SystemAddrLines[a][2],
                                                    SystemAddrLines[a][3])}}) :
                   a \in {CHOOSE i \in aa : \A j \in aa : i <= j}})
        ELSE SystemParseRest(text, index, st)
\* system_program::pubkey_id_to_pubkey followed by "{}" or "{:?}"
pubkey_id_to_pubkey(store, id) == Pubkey_to_string(KeyStore_get(store, id))
\* SystemProgramLog::render
SystemProgramLog_render(sys, st, store) ==
    LET addrs == {i \in 1..Len(SystemAddrLines) : SystemAddrLines[i][1] = sys.s}
        mms == {i \in 1..Len(SystemMismatchLines) : SystemMismatchLines[i][1] = sys.s}
    IN  IF sys.s = "Instruction" THEN InstructionPrefix \o <<sys.ix>>
        ELSE IF mms # {}
        THEN SystemMismatchLines[CHOOSE i \in mms : TRUE][2]
                \o <<pubkey_id_to_pubkey(store, sys.provided_addr)>> \o MismatchMid
                \o <<pubkey_id_to_pubkey(store, sys.derived_addr)>>
        ELSE IF addrs # {}
        THEN SystemAddrLines[CHOOSE i \in addrs : TRUE][2]
                \o <<pubkey_id_to_pubkey(store, sys.addr)>>
                \o SystemAddrLines[CHOOSE i \in addrs : TRUE][3]
        ELSE CASE sys.s = "AllocateRequestedTooLarge" ->
                    <<"Allocate", ":", SP, "requested", SP, Display(sys.requested)>>
                        \o <<",", SP, "max", SP, "allowed", SP, Display(sys.max_allowed)>>
               [] sys.s = "TransferFromMustNotCarryData" -> MustNotCarryData
               [] sys.s = "TransferFromMustSign" ->
                    <<"Transfer", ":", SP, FROM_QUOTED, SP, "account", SP>>
                        \o <<pubkey_id_to_pubkey(store, sys.from)>> \o MustSign
               [] sys.s = "TransferInsufficient" ->
                    InsufficientPrefix \o <<Display(sys.have), ",", SP, "need", SP, Display(sys.need)>>
               [] sys.s = "AdvanceNonceRecentBlockhashesEmpty" -> AdvanceNonceEmpty
               [] sys.s = "InitializeNonceRecentBlockhashesEmpty" -> InitializeNonceEmpty
               [] sys.s = "AuthorizeNonceAccount" -> AuthorizeNoncePrefix \o resolve(st, sys.msg)
               [] sys.s = "Unparsed" -> resolve(st, sys.text)

\* ---- compact/log.rs -----------------------------------------------------
CustomErrorPrefix == Words(<<"custom", "program", "error">>) \o <<":", SP, "0x">>
ErrorPrefix == <<"Error", ":", SP>>
FailedToCompletePrefix == Words(<<"Program", "failed", "to", "complete">>) \o <<":", SP>>
UnknownProgramPrefix == Words(<<"Unknown", "program">>) \o <<SP>>
UnknownAccountPrefix ==
    Words(<<"Instruction", "references", "an", "unknown", "account">>) \o <<SP>>
ProgramLogPrefix == <<"Program", SP, "log", ":", SP>>
LogMid == <<SP, "log", ":", SP>>
NotDeployed == Words(<<"is", "not", "deployed">>)
InvalidAccountData == Words(<<"invalid", "account", "data", "for", "instruction">>)
InvalidProgramArgument == Words(<<"invalid", "program", "argument">>)
UnitsRemaining == <<SP>> \o Words(<<"units", "remaining">>)
ComputeUnits == <<SP>> \o Words(<<"compute", "units">>)

\* parse_custom_program_error_reason: None is -1
parse_custom_program_error_reason(s) ==
    LET hex == strip_prefix(trim(s), CustomErrorPrefix) IN
    IF hex.some THEN from_str_radix16(hex.rest) ELSE -1
\* parse_program_log_error_payload: [some, msg]
parse_program_log_error_payload(s) ==
    LET msg == strip_prefix(trim(s), ErrorPrefix) IN [some |-> msg.some, msg |-> trim(msg.rest)]
\* classify_failed_reason: [class, code, r]
classify_failed_reason(reason) ==
    LET r == trim(reason) IN
    IF parse_custom_program_error_reason(r) # -1
    THEN [class |-> "Custom", code |-> parse_custom_program_error_reason(r), r |-> r]
    ELSE IF r = InvalidAccountData THEN [class |-> "InvalidAccountData", code |-> 0, r |-> r]
    ELSE IF r = InvalidProgramArgument THEN [class |-> "InvalidProgramArgument", code |-> 0, r |-> r]
    ELSE [class |-> "Other", code |-> 0, r |-> r]
\* parse_consumed: "none", "some" with the two numbers, or "panic" when
\* " compute units" starts inside " of " (the slice start is past its end)
parse_consumed(after_pk) ==
    LET rem == strip_prefix(after_pk, <<"consumed", SP>>)
        of_pos == find(rem.rest, <<SP, "of", SP>>)
        end_pos == find(rem.rest, ComputeUnits)
        used == parse_u32_commas(Take(rem.rest, of_pos))
        limit == parse_u32_commas(SubSeq(rem.rest, of_pos + 4, end_pos))
        none == [st |-> "none", used |-> 0, limit |-> 0]
    IN  IF ~rem.some \/ of_pos = -1 \/ end_pos = -1 THEN none
        ELSE IF end_pos < of_pos + 3 THEN [st |-> "panic", used |-> 0, limit |-> 0]
        ELSE IF used = -1 \/ limit = -1 THEN none
        ELSE [st |-> "some", used |-> used, limit |-> limit]
\* decode_base64_array: [some, id, data]; nothing is pushed on a failure
decode_base64_array(text, dt) ==
    LET tokens == split_whitespace(trim(text))
        decoded == [i \in 1..Len(tokens) |-> Base64Decode(tokens[i])] \o <<>>
    IN  IF \E i \in 1..Len(tokens) : tokens[i] \notin Base64Texts
        THEN [some |-> FALSE, id |-> 0, data |-> dt]
        ELSE [some |-> TRUE, id |-> Len(dt), data |-> Append(dt, decoded)]
\* lookup_pid_or_panic on the text of a line: Panic when it is no pubkey
lookup_pid_or_panic_text(index, pk_txt) ==
    IF Pubkey_from_text(pk_txt).ok
    THEN lookup_unchecked(index, Pubkey_from_text(pk_txt).pk) ELSE Panic
\* what the loop of parse_logs does with one line: "skip", "panic", or
\* "ok" with the event pushed and the tables after it
LineOk(ev, st, dt) == [st |-> "ok", ev |-> ev, strings |-> st, data |-> dt]
LinePanic == [st |-> "panic", ev |-> <<>>, strings |-> <<>>, data |-> <<>>]
LineText(ev, text, st, dt) ==
    [st |-> "ok", ev |-> [ev |-> ev, text |-> Len(st)], strings |-> Append(st, text), data |-> dt]
\* lower-case, the ':' removed (the compute-budget line's normalisation)
to_lowercase(t) == CASE t = "Request" -> "request" [] t = "Units" -> "units" [] OTHER -> t
NormalizedCb(after_pk) ==
    LET kept == SelectSeq(after_pk, LAMBDA t : t # ":") IN
    [i \in 1..Len(kept) |-> to_lowercase(kept[i])] \o <<>>
\* "Program <pk> ...": the rules after the pubkey
ParseAfterPk(line, program, is_cb, after_pk, st, dt) ==
    LET inv == strip_prefix(after_pk, <<"invoke", SP, "[">>)
        d == strip_suffix(inv.rest, <<"]">>)
        depth == parse_int(trim(d.rest))
        failed == strip_prefix(after_pk, <<"failed", ":", SP>>)
        units == strip_prefix(NormalizedCb(after_pk), <<"request", SP, "units", SP>>)
    IN  IF inv.some /\ d.some /\ depth # -1
        THEN LineOk([ev |-> "Invoke", program |-> program,
                     depth |-> IF depth < 255 THEN depth ELSE 255], st, dt)
        ELSE IF after_pk = <<"success">> THEN LineOk([ev |-> "Success", program |-> program], st, dt)
        ELSE IF failed.some
        THEN Only({CASE class.class = "Custom" ->
                            LineOk([ev |-> "FailureCustomProgramError", program |-> program,
                                    code |-> class.code], st, dt)
                     [] class.class = "InvalidAccountData" ->
                            LineOk([ev |-> "FailureInvalidAccountData", program |-> program], st, dt)
                     [] class.class = "InvalidProgramArgument" ->
                            LineOk([ev |-> "FailureInvalidProgramArgument", program |-> program],
                                   st, dt)
                     [] OTHER ->
                            LineOk([ev |-> "Failure", program |-> program, reason |-> Len(st)],
                                   Append(st, class.r), dt) :
                   class \in {classify_failed_reason(failed.rest)}})
        ELSE Only({IF consumed.st = "panic" THEN LinePanic
                   ELSE IF consumed.st = "some"
                   THEN LineOk([ev |-> "Consumed", program |-> program, used |-> consumed.used,
                                limit |-> consumed.limit], st, dt)
                   ELSE IF is_cb /\ units.some /\ cb_units # -1
                   THEN LineOk([ev |-> "CbRequestUnits", units |-> cb_units], st, dt)
                   ELSE LineText("Unparsed", line, st, dt) :
                   consumed \in {parse_consumed(after_pk)},
                   cb_units \in {parse_u32_commas(units.rest)}})
\* "Program ...": the rules before the pubkey is cut off
ParseProgramLine(line, rest, index, cb_pid, st, dt) ==
    LET b64 == strip_prefix(rest, <<"data", ":", SP>>)
        data == decode_base64_array(b64.rest, dt)
        ret == strip_prefix(rest, <<"return", ":", SP>>)
        pkb == split_once(trim(ret.rest), <<SP>>)
        rpid == lookup_pid_or_panic_text(index, trim(pkb.a))
        rdata == decode_base64_array(pkb.b, dt)
        cons == strip_prefix(rest, <<"consumption", ":", SP>>)
        upos == find(cons.rest, UnitsRemaining)
        nd == strip_suffix(rest, <<SP>> \o NotDeployed)
        npid == lookup_pid_or_panic_text(index, trim(nd.rest))
        sp == find(rest, <<SP>>)
        pid == lookup_pid_or_panic_text(index, trim(Take(rest, sp)))
    IN  IF b64.some
        THEN IF data.some THEN LineOk([ev |-> "Data", data |-> data.id], st, data.data)
             ELSE LineText("Unparsed", line, st, dt)
        ELSE IF ret.some
        THEN IF ~pkb.some THEN LineText("Unparsed", line, st, dt)
             ELSE IF rpid = Panic THEN LinePanic
             ELSE IF rdata.some
             THEN LineOk([ev |-> "Return", program |-> rpid, data |-> rdata.id], st, rdata.data)
             ELSE LineText("Unparsed", line, st, dt)
        ELSE IF cons.some
        THEN IF upos # -1 /\ parse_u32_commas(Take(cons.rest, upos)) # -1
             THEN LineOk([ev |-> "Consumption",
                          units |-> parse_u32_commas(Take(cons.rest, upos))], st, dt)
             ELSE LineText("Unparsed", line, st, dt)
        ELSE IF rest = NotDeployed THEN LineOk([ev |-> "ProgramNotDeployed", some |-> FALSE], st, dt)
        ELSE IF nd.some
        THEN IF npid = Panic THEN LinePanic
             ELSE LineOk([ev |-> "ProgramNotDeployed", some |-> TRUE, program |-> npid], st, dt)
        ELSE IF sp # -1
        THEN IF pid = Panic THEN LinePanic
             ELSE ParseAfterPk(line, pid, pid = cb_pid, trim(Drop(rest, sp + 1)), st, dt)
        ELSE LineText("Plain", line, st, dt)
\* "Program log: <msg>"
ParseProgramLog(text, index, st, dt) ==
    LET err == parse_program_log_error_payload(text)
        code == parse_custom_program_error_reason(text)
    IN  IF code # -1 THEN LineOk([ev |-> "CustomProgramError", code |-> code], st, dt)
        ELSE IF err.some THEN LineOk([ev |-> "ProgramLogError", msg |-> Len(st)], Append(st, err.msg), dt)
        ELSE Only({LineOk([ev |-> "ProgramLog", log |-> lg.log], lg.st, dt) :
                   lg \in {parse_program_log_no_id(text, index, st)}})
\* "Program <id> log: <msg>"
ParseProgramIdLog(rest, at, index, st, dt) ==
    LET pk_txt == trim(Take(rest, at))
        text == trim(Drop(rest, at + Len(LogMid)))
        program == lookup_pid_or_panic_text(index, pk_txt)
        err == parse_program_log_error_payload(text)
        code == parse_custom_program_error_reason(text)
    IN  IF program = Panic THEN LinePanic
        ELSE IF code # -1
        THEN LineOk([ev |-> "FailureCustomProgramError", program |-> program, code |-> code], st, dt)
        ELSE IF err.some THEN LineOk([ev |-> "ProgramLogError", msg |-> Len(st)], Append(st, err.msg), dt)
        ELSE Only({LineOk([ev |-> "ProgramIdLog", program |-> program, log |-> lg.log], lg.st, dt) :
                   lg \in {parse_program_log_for_program(pk_txt, text, index, st)}})
\* the body of the loop of parse_logs
ParseLine(line0, index, cb_pid, st, dt) ==
    LET line == trim_end(line0)
        hex == strip_prefix(line, CustomErrorPrefix)
        ftc == strip_prefix(line, FailedToCompletePrefix)
        up == strip_prefix(line, UnknownProgramPrefix)
        ua == strip_prefix(line, UnknownAccountPrefix)
        plog == strip_prefix(line, ProgramLogPrefix)
        prog == strip_prefix(line, <<"Program", SP>>)
        at == find(prog.rest, LogMid)
    IN  IF line = <<>> THEN [st |-> "skip", ev |-> <<>>, strings |-> st, data |-> dt]
        ELSE Only({
        IF sys.st = "panic" THEN LinePanic
        ELSE IF sys.st = "some" THEN LineOk([ev |-> "System", sys |-> sys.sys], sys.strings, dt)
        ELSE IF hex.some /\ from_str_radix16(hex.rest) # -1
        THEN LineOk([ev |-> "CustomProgramError", code |-> from_str_radix16(hex.rest)], st, dt)
        ELSE IF ftc.some THEN LineText("FailedToComplete", ftc.rest, st, dt)
        ELSE IF up.some
        THEN IF Pubkey_from_text(trim(up.rest)).ok THEN LineText("UnknownProgram", trim(up.rest), st, dt)
             ELSE LineText("Unparsed", line, st, dt)
        ELSE IF ua.some
        THEN IF Pubkey_from_text(trim(ua.rest)).ok THEN LineText("UnknownAccount", trim(ua.rest), st, dt)
             ELSE LineText("Unparsed", line, st, dt)
        ELSE IF line \in {<<"VerifyEd25519">>, <<"VerifySecp256k1">>, <<"CloseContextState">>}
        THEN LineOk([ev |-> line[1]], st, dt)
        ELSE IF plog.some THEN ParseProgramLog(trim(plog.rest), index, st, dt)
        ELSE IF prog.some /\ at # -1 THEN ParseProgramIdLog(prog.rest, at, index, st, dt)
        ELSE IF prog.some THEN ParseProgramLine(line, prog.rest, index, cb_pid, st, dt)
        ELSE LineText("Plain", line, st, dt) :
        sys \in {SystemProgramLog_parse(line, index, st)}})
\* the loop of parse_logs over the lines from the i-th on
RECURSIVE ParseFrom(_, _, _, _, _, _, _)
ParseFrom(lines, i, index, cb_pid, events, st, dt) ==
    IF i > Len(lines) THEN [st |-> "ok", events |-> events, strings |-> st, data |-> dt]
    ELSE Only({IF r.st = "panic" THEN [st |-> "panic", events |-> <<>>, strings |-> <<>>, data |-> <<>>]
               ELSE IF r.st = "skip" THEN ParseFrom(lines, i + 1, index, cb_pid, events, st, dt)
               ELSE ParseFrom(lines, i + 1, index, cb_pid, Append(events, r.ev),
                              r.strings, r.data) :
               r \in {ParseLine(lines[i], index, cb_pid, st, dt)}})
\* parse_logs: the compute-budget id is looked up before the first line
parse_logs(lines, index) ==
    LET cb_pid == lookup_pid_or_panic_text(index, <<CB_PK_STR>>) IN
    IF cb_pid = Panic THEN [st |-> "panic", events |-> <<>>, strings |-> <<>>, data |-> <<>>]
    ELSE ParseFrom(lines, 1, index, cb_pid, <<>>, <<>>, <<>>)

\* pid_to_pubkey followed by "{}"; the assert and the bounds panic are
\* RenderPanics
pid_to_pubkey(store, pid) == Pubkey_to_string(KeyStore_get(store, pid))
\* one arm of the match of render_logs
RenderEvent(e, store, st, dt) ==
    LET pk == <<"Program", SP, pid_to_pubkey(store, e.program)>> IN
    CASE e.ev = "Invoke" -> pk \o <<SP, "invoke", SP, "[", Display(e.depth), "]">>
      [] e.ev = "Consumed" ->
            pk \o <<SP, "consumed", SP, Display(e.used), SP, "of", SP, Display(e.limit)>>
               \o ComputeUnits
      [] e.ev = "Success" -> pk \o <<SP, "success">>
      [] e.ev = "Failure" -> pk \o <<SP, "failed", ":", SP>> \o resolve(st, e.reason)
      [] e.ev = "FailureCustomProgramError" ->
            pk \o <<SP, "failed", ":", SP>> \o CustomErrorPrefix \o <<LowerHex(e.code)>>
      [] e.ev = "FailureInvalidAccountData" -> pk \o <<SP, "failed", ":", SP>> \o InvalidAccountData
      [] e.ev = "FailureInvalidProgramArgument" ->
            pk \o <<SP, "failed", ":", SP>> \o InvalidProgramArgument
      [] e.ev = "FailedToComplete" -> FailedToCompletePrefix \o resolve(st, e.text)
      [] e.ev = "System" -> SystemProgramLog_render(e.sys, st, store)
      [] e.ev = "ProgramLog" -> ProgramLogPrefix \o render_program_log(e.log, store, st)
      [] e.ev = "ProgramLogError" -> ProgramLogPrefix \o ErrorPrefix \o resolve(st, e.msg)
      [] e.ev = "ProgramIdLog" -> pk \o LogMid \o render_program_log(e.log, store, st)
      [] e.ev = "CustomProgramError" -> CustomErrorPrefix \o <<LowerHex(e.code)>>
      [] e.ev = "Return" ->
            <<"Program", SP, "return", ":", SP, pid_to_pubkey(store, e.program), SP>>
                \o render_array(resolve(dt, e.data))
      [] e.ev = "Data" -> <<"Program", SP, "data", ":", SP>> \o render_array(resolve(dt, e.data))
      [] e.ev = "Consumption" ->
            <<"Program", SP, "consumption", ":", SP, Display(e.units)>> \o UnitsRemaining
      [] e.ev = "CbRequestUnits" ->
            <<"Program", SP, CB_PK_STR, SP, "request", SP, "units", SP, Display(e.units)>>
      [] e.ev = "ProgramNotDeployed" ->
            IF e.some THEN pk \o <<SP>> \o NotDeployed ELSE <<"Program", SP>> \o NotDeployed
      [] e.ev = "UnknownProgram" -> UnknownProgramPrefix \o resolve(st, e.text)
      [] e.ev = "UnknownAccount" -> UnknownAccountPrefix \o resolve(st, e.text)
      [] e.ev \in {"VerifyEd25519", "VerifySecp256k1", "CloseContextState"} -> <<e.ev>>
      [] e.ev \in {"Plain", "Unparsed"} -> resolve(st, e.text)
\* an event whose program id pid_to_pubkey panics on
RenderPanics(e, store) == "program" \in DOMAIN e /\ KeyStore_get(store, e.program) = 0
\* render_logs: [st, lines]
render_logs(cls, store) ==
    IF \E i \in 1..Len(cls.events) : RenderPanics(cls.events[i], store)
    THEN [st |-> "panic", lines |-> <<>>]
    ELSE [st |-> "ok",
          lines |-> [i \in 1..Len(cls.events) |->
                        RenderEvent(cls.events[i], store, cls.strings, cls.data)] \o <<>>]

\* ---- SpecLogs: parse, render, parse again -------------------------------
PK(k) == Pubkey_to_string(k)
ProgramPk(k) == <<"Program", SP, PK(k), SP>>
\* lines the system-program parser is tried on with some success
SystemLines ==
    {InstructionPrefix \o <<"RevokePendingActivation">>,
     <<SP>> \o MustNotCarryData,
     <<"Create", ":", SP, "address", SP, PK(1)>> \o MismatchMid \o <<SP, PK(2)>>,
     <<"Create", ":", SP, "address", SP, "bad">> \o MismatchMid \o <<PK(2)>>,
     <<"Create", SP, "Account", ":", SP, "account", SP, "Address", SP, "{", SP, "address", ":", SP,
       PK(1), SP, "}">> \o AlreadyInUse,
     <<"Create", SP, "Account", ":", SP, "account", SP, "Address", SP, "{", SP, "address", ":", SP,
       PK(1), ",", SP, "base", ":", SP, "None", SP, "}">> \o AlreadyInUse,
     <<"Allocate", ":", SP, "account", SP, PK(2)>> \o AlreadyInUse,
     <<"Create", SP, "Account", ":", SP, "account">> \o AlreadyInUse,
     <<"Assign", ":", SP, "account", SP, SP, PK(2)>> \o MustSign,
     <<"Allocate", ":", SP, "requested", SP, "1,000", ",", SP, "max", SP, "allowed", SP, "2,000">>,
     InsufficientPrefix \o <<"5", ",", SP, "need", SP, "007">>,
     InsufficientPrefix \o <<"5">>,
     <<"Transfer", ":", SP, FROM_QUOTED, SP, "account", SP, PK(1)>> \o MustSign,
     AdvanceNonceEmpty,
     AuthorizeNoncePrefix \o <<SP, "boom">>}
\* lines of the runtime that name no program
RuntimeLines ==
    {CustomErrorPrefix \o <<"1F">>,
     CustomErrorPrefix \o <<"zz">>,
     FailedToCompletePrefix \o <<SP, "boom">>,
     Words(<<"Program", "failed", "to", "complete">>) \o <<":">>,
     UnknownProgramPrefix \o <<SP, PK(1)>>,
     UnknownProgramPrefix \o <<"bad">>,
     UnknownAccountPrefix \o <<PK(2), SP>>,
     <<"VerifyEd25519">>, <<"VerifySecp256k1">>, <<"CloseContextState">>,
     <<"hello">>, <<SP, "hello", SP>>, <<>>, <<SP>>, <<"Program">>, <<"Program", SP, PK(1)>>}
\* payloads of "Program log: " and of "Program <id> log: "
LogPayloads ==
    {CustomErrorPrefix \o <<"1F">>,
     ErrorPrefix \o <<SP, "boom">>,
     ErrorPrefix \o Words(<<"insufficient", "funds">>),
     InstructionPrefix \o <<SP, "Transfer">>,
     InstructionPrefix \o <<"Swap">>,
     InstructionPrefix \o <<"RevokePendingActivation">>,
     PleaseUpgradeText,
     Words(<<"Wallet", "of", "the", "owner", "associated", "token", "account", "must", "sign">>),
     Words(<<"Transfer", "is", "disabled", "for", "this", "mint">>),
     ResizePrefix \o <<"007">> \o ResizeSuffix,
     ResizePrefix \o <<"x">> \o ResizeSuffix,
     HarvestPrefix \o <<PK(1), ":", SP, SP, "boom">>,
     HarvestPrefix \o <<"bad", ":", SP, "boom">>,
     OccurredPrefix \o <<"Oops", SP>> \o ErrorNumberMid \o <<"007">> \o ErrorMessageMid
        \o <<"boom", ".", ".">>,
     OccurredPrefix \o <<"Oops">> \o ErrorNumberMid \o <<"5">> \o ErrorMessageMid \o <<".">>,
     OccurredPrefix \o <<"Oops">> \o ErrorNumberMid \o <<"x">> \o ErrorMessageMid \o <<"boom">>,
     ThrownPrefix \o <<"a.rs", ":", "5", SP>> \o ErrorCodeMid \o <<"Oops">> \o ErrorNumberMid
        \o <<"5">> \o ErrorMessageMid \o <<SP, "boom">>,
     ThrownPrefix \o <<"a.rs", ":", "x">> \o ErrorCodeMid \o <<"Oops">> \o ErrorNumberMid
        \o <<"5">> \o ErrorMessageMid \o <<"boom", ".">>,
     ThrownPrefix \o <<"a.rs", ":", "5">> \o ErrorCodeMid \o <<"Oops">> \o ErrorNumberMid
        \o <<"1,000">> \o ErrorMessageMid \o <<"boom", ".">>,
     <<"hello">>,
     <<"hello", SP, "log", ":", SP, "boom">>}
ProgramLogLines == {ProgramLogPrefix \o p : p \in LogPayloads} \cup {ProgramLogPrefix \o <<SP, "hello">>}
ProgramIdLogLines ==
    {<<"Program", SP, PK(k)>> \o LogMid \o p : k \in {1, 2, 3}, p \in LogPayloads}
        \cup {<<"Program", SP, SP, PK(3)>> \o LogMid \o <<"hello">>,
              <<"Program", SP, "bad">> \o LogMid \o <<"hello">>}
\* "Program <pk> ..." and the other "Program ..." lines
ProgramLines ==
    {<<"Program", SP, "data", ":", SP, "QQ==", SP, SP, "QUI=">>,
     <<"Program", SP, "data", ":", SP, "Q">>,
     <<"Program", SP, "return", ":", SP, PK(1), SP, SP, "QQ==">>,
     <<"Program", SP, "return", ":", SP, PK(1), SP, "QQ==", SP, "Q">>,
     <<"Program", SP, "return", ":", SP, PK(1)>>,
     <<"Program", SP, "return", ":", SP, "bad", SP, "QQ==">>,
     <<"Program", SP, "consumption", ":", SP, "1,000">> \o UnitsRemaining,
     <<"Program", SP, "consumption", ":", SP, "x">> \o UnitsRemaining,
     <<"Program", SP>> \o NotDeployed,
     ProgramPk(2) \o NotDeployed,
     ProgramPk(1) \o <<"invoke", SP, "[", "300", "]">>,
     ProgramPk(1) \o <<"invoke", SP, "[", SP, "1", SP, "]">>,
     ProgramPk(1) \o <<"invoke", SP, "[", "x", "]">>,
     ProgramPk(2) \o <<"success">>,
     ProgramPk(2) \o <<"failed", ":", SP>> \o CustomErrorPrefix \o <<"1F">>,
     ProgramPk(2) \o <<"failed", ":", SP>> \o InvalidAccountData,
     ProgramPk(2) \o <<"failed", ":", SP, SP>> \o InvalidProgramArgument,
     ProgramPk(2) \o <<"failed", ":", SP, SP, "boom">>,
     ProgramPk(2) \o <<"failed", ":">>,
     ProgramPk(1) \o <<"consumed", SP, "1,000", SP, "of", SP, "2,000">> \o ComputeUnits,
     ProgramPk(1) \o <<"consumed", SP, "5", SP, "of", SP, "7">> \o ComputeUnits \o <<SP, "boom">>,
     ProgramPk(1) \o <<"consumed", SP, "5", SP, "of">> \o ComputeUnits,
     ProgramPk(1) \o <<"consumed", SP, "x", SP, "of", SP, "7">> \o ComputeUnits,
     ProgramPk(CB_PK) \o <<"Request", SP, "Units", ":", SP, "1,000">>,
     ProgramPk(CB_PK) \o <<"request", SP, "units", SP, "x">>,
     ProgramPk(1) \o <<"request", SP, "units", SP, "5">>,
     ProgramPk(CB_PK) \o <<"success">>}
LogLineSet == SystemLines \cup RuntimeLines \cup ProgramLogLines \cup ProgramIdLogLines \cup ProgramLines
\* the lines around the one under study: each fills a table or is skipped
Followers ==
    {ProgramLogPrefix \o <<"hello">>,
     <<"Program", SP, "data", ":", SP, "QUI=">>,
     ProgramLogPrefix \o ErrorPrefix \o <<SP, "boom">>,
     <<>>}
\* the log of a System-program call that logs the name of its instruction
S1Lines ==
    <<ProgramPk(SYSTEM_PK) \o <<"invoke", SP, "[", "1", "]">>,
      ProgramLogPrefix \o InstructionPrefix \o <<"Transfer">>,
      ProgramPk(SYSTEM_PK) \o <<"success">>>>
\* a log of up to MaxLines lines: one line of LogLineSet among followers;
\* and the log S1Lines
LogInputs ==
    UNION {{[i \in 1..n |-> IF i = p THEN l ELSE f[i]] \o <<>> :
                l \in LogLineSet, f \in [1..n -> Followers]} :
            n \in 1..MaxLines, p \in 1..MaxLines}
        \cup {S1Lines}

InitLogs ==
    /\ ArchiveIdle /\ ReaderIdle /\ BuildIdle /\ FrameIdle /\ BlockhashIdle /\ KeysIdle
    /\ DecodeIdle
    /\ loglines \in LogInputs
    /\ logpc = "parse" /\ parsed = NoStream /\ rendered = <<>> /\ reparsed = NoStream

\* parse_logs on the transaction's lines
ParseLogs ==
    /\ logpc = "parse"
    /\ parsed' = parse_logs(loglines, LogIndex)
    /\ logpc' = IF parsed'.st = "ok" THEN "render" ELSE "panicked"
    /\ UNCHANGED <<loglines, rendered, reparsed>>
    /\ UNCHANGED rvars /\ UNCHANGED bvars /\ UNCHANGED fvars /\ UNCHANGED lvars
    /\ UNCHANGED kvars /\ UNCHANGED mvars /\ UNCHANGED tvars

\* render_logs on the stream
RenderLogs ==
    /\ logpc = "render"
    /\ LET r == render_logs(parsed, LogKeys) IN
        /\ rendered' = r.lines
        /\ logpc' = IF r.st = "ok" THEN "reparse" ELSE "panicked"
    /\ UNCHANGED <<loglines, parsed, reparsed>>
    /\ UNCHANGED rvars /\ UNCHANGED bvars /\ UNCHANGED fvars /\ UNCHANGED lvars
    /\ UNCHANGED kvars /\ UNCHANGED mvars /\ UNCHANGED tvars

\* parse_logs on the rendered lines
ReparseLogs ==
    /\ logpc = "reparse"
    /\ reparsed' = parse_logs(rendered, LogIndex)
    /\ logpc' = IF reparsed'.st = "ok" THEN "done" ELSE "panicked"
    /\ UNCHANGED <<loglines, parsed, rendered>>
    /\ UNCHANGED rvars /\ UNCHANGED bvars /\ UNCHANGED fvars /\ UNCHANGED lvars
    /\ UNCHANGED kvars /\ UNCHANGED mvars /\ UNCHANGED tvars

NextLogs == ParseLogs \/ RenderLogs \/ ReparseLogs

SpecLogs == InitLogs /\ [][NextLogs]_vars

(***************************************************************************)
(* Transaction metadata decoder (car-reader/src/metadata_decoder.rs,       *)
(* stored_transaction_status_meta.rs, convert_metadata.rs). A byte is a    *)
(* number 0..255. A decoded value is [some, bytes, items]: the bytes of a  *)
(* fixed-width value, the items of a collection or of a struct, and        *)
(* some = FALSE for None.                                                  *)
(***************************************************************************)
BINCODE_EPOCH_CUTOFF == 148
\* an epoch count that starts at one
slot_to_epoch_from_one(slot) == slot \div 432000 + 1
slot_to_epoch(slot) == slot \div 432000

NoneValue == [some |-> FALSE, bytes |-> <<>>, items |-> <<>>]
FixedValue(bs) == [some |-> TRUE, bytes |-> bs, items |-> <<>>]
ItemsValue(xs) == [some |-> TRUE, bytes |-> <<>>, items |-> xs]

\* ---- the schema of the legacy record ------------------------------------
TyFixed(n) == [k |-> "fixed", n |-> n]
TyVec(ty) == [k |-> "vec", of |-> ty]
TyOption(ty) == [k |-> "Option", of |-> ty]
TyOptionEof(ty) == [k |-> "OptionEof", of |-> ty]
TyStruct(tys) == [k |-> "struct", fields |-> tys]
TyU8 == TyFixed(1)
TyU32 == TyFixed(4)
TyU64 == TyFixed(8)
TyString == TyVec(TyU8)
TransactionReturnData == TyStruct(<<TyFixed(32), TyVec(TyU8)>>)
CompiledInstruction == TyStruct(<<TyU8, TyVec(TyU8), TyVec(TyU8)>>)
InnerInstruction == TyStruct(<<CompiledInstruction, TyOption(TyU32)>>)
InnerInstructions == TyStruct(<<TyU8, TyVec(InnerInstruction)>>)
StoredExtendedReward == TyStruct(<<TyString, TyU64, TyU64, TyOption(TyU8), TyOption(TyU8)>>)
StoredTokenAmount == TyStruct(<<TyU64, TyU8, TyString>>)
StoredTransactionTokenBalance ==
    TyStruct(<<TyU8, TyString, StoredTokenAmount, TyString, TyString>>)
\* the u32 tag of the status: 0 is Ok. The reader of Err's payload
\* (stored_transaction_error.rs) is not part of the source tree; the inputs
\* hold the tag 0 and tags no variant has
TransactionResult == [k |-> "TransactionResult"]
StoredTransactionStatusMeta ==
    TyStruct(<<TransactionResult, TyU64, TyVec(TyU64), TyVec(TyU64),
               TyOptionEof(TyVec(InnerInstructions)),
               TyOptionEof(TyVec(TyString)),
               TyOptionEof(TyVec(StoredTransactionTokenBalance)),
               TyOptionEof(TyVec(StoredTransactionTokenBalance)),
               TyOptionEof(TyVec(StoredExtendedReward)),
               TyOptionEof(TransactionReturnData),
               TyOptionEof(TyU64),
               TyOptionEof(TyU64)>>)
\* the positions of the optional trailing fields, inner_instructions first
TrailingFields == 5..12

\* ---- SchemaRead over a byte slice ----------------------------------------
ReadFail(p) == [ok |-> FALSE, pos |-> p, val |-> NoneValue]
ReadOk(p, v) == [ok |-> TRUE, pos |-> p, val |-> v]
\* a little-endian u64 length; one that does not fit three bytes is longer
\* than any input, and is read as the least such length
LenOf(bs) ==
    IF \A i \in 4..8 : bs[i] = 0 THEN bs[1] + 256 * bs[2] + 65536 * bs[3]
    ELSE 256 * 65536

\* Option and OptionEof once the discriminant byte is there
RECURSIVE SchemaRead(_, _, _)
RECURSIVE SchemaReadAll(_, _, _)
ReadTagged(ty, b, p) ==
    IF b[p + 1] = 0 THEN ReadOk(p + 1, NoneValue)
    ELSE IF b[p + 1] = 1 THEN SchemaRead(ty, b, p + 1)
    ELSE ReadFail(p + 1)
\* Option: no byte left for the discriminant is an error
Option_read(ty, b, p) ==
    IF p + 1 > Len(b) THEN ReadFail(p) ELSE ReadTagged(ty, b, p)
\* OptionEof::read: no byte left for the discriminant is None
OptionEof_read(ty, b, p) ==
    IF p + 1 > Len(b) THEN ReadOk(p, NoneValue) ELSE ReadTagged(ty, b, p)
\* the fields of a struct, or the elements of a collection, in turn
SchemaReadAll(tys, b, p) ==
    IF tys = <<>> THEN ReadOk(p, ItemsValue(<<>>))
    ELSE Only({
            IF ~h.ok THEN ReadFail(h.pos)
            ELSE Only({IF t.ok THEN ReadOk(t.pos, ItemsValue(<<h.val>> \o t.val.items))
                       ELSE ReadFail(t.pos) :
                      t \in {SchemaReadAll(Tail(tys), b, h.pos)}}) :
            h \in {SchemaRead(Head(tys), b, p)}})
SchemaRead(ty, b, p) ==
    CASE ty.k = "fixed" ->
            IF p + ty.n <= Len(b) THEN ReadOk(p + ty.n, FixedValue(SubSeq(b, p + 1, p + ty.n)))
            ELSE ReadFail(p)
      [] ty.k = "vec" ->
            IF p + 8 > Len(b) THEN ReadFail(p)
            ELSE Only({IF n > Len(b) - (p + 8) THEN ReadFail(p + 8)
                       ELSE SchemaReadAll([i \in 1..n |-> ty.of] \o <<>>, b, p + 8) :
                      n \in {LenOf(SubSeq(b, p + 1, p + 8))}})
      [] ty.k = "Option" -> Option_read(ty.of, b, p)
      [] ty.k = "OptionEof" -> OptionEof_read(ty.of, b, p)
      [] ty.k = "struct" -> SchemaReadAll(ty.fields, b, p)
      [] ty.k = "TransactionResult" ->
            IF p + 4 > Len(b) THEN ReadFail(p)
            ELSE IF SubSeq(b, p + 1, p + 4) = <<0, 0, 0, 0>> THEN ReadOk(p + 4, NoneValue)
            ELSE ReadFail(p + 4)
\* wincode::deserialize::<StoredTransactionStatusMeta>
wincode_deserialize(b) == SchemaRead(StoredTransactionStatusMeta, b, 0)

\* ---- TransactionStatusMeta -----------------------------------------------
\* the record both decoders fill. wire holds the fields of a
\* tag-length-value message in the order they were merged, each
\* [tag, wire_type, payload]: the table from tags to the fields above it is
\* generated from confirmed_block.proto
DefaultMeta ==
    [err |-> NoneValue, fee |-> <<>>, pre_balances |-> <<>>, post_balances |-> <<>>,
     inner_instructions |-> <<>>, inner_instructions_none |-> FALSE,
     log_messages |-> <<>>, log_messages_none |-> FALSE,
     pre_token_balances |-> <<>>, post_token_balances |-> <<>>, rewards |-> <<>>,
     loaded_writable_addresses |-> <<>>, loaded_readonly_addresses |-> <<>>,
     return_data |-> NoneValue, return_data_none |-> FALSE,
     compute_units_consumed |-> NoneValue, cost_units |-> NoneValue,
     wire |-> <<>>]
\* stored_meta_to_proto: the optional collections become a list and a none
\* flag, the compute units and the cost units are dropped
stored_meta_to_proto(m) ==
    LET f == m.items IN
    [err |-> f[1], fee |-> f[2].bytes,
     pre_balances |-> f[3].items, post_balances |-> f[4].items,
     inner_instructions |-> f[5].items, inner_instructions_none |-> ~f[5].some,
     log_messages |-> f[6].items, log_messages_none |-> ~f[6].some,
     pre_token_balances |-> f[7].items, post_token_balances |-> f[8].items,
     rewards |-> f[9].items,
     loaded_writable_addresses |-> <<>>, loaded_readonly_addresses |-> <<>>,
     return_data |-> f[10], return_data_none |-> ~f[10].some,
     compute_units_consumed |-> NoneValue, cost_units |-> NoneValue,
     wire |-> <<>>]

\* ---- Message::merge over a byte slice -------------------------------------
\* decode_varint: [ok, pos, v]; at most ten bytes
RECURSIVE decode_varint(_, _, _)
decode_varint(b, p, n) ==
    IF p + 1 > Len(b) \/ n > 10 THEN [ok |-> FALSE, pos |-> p, v |-> 0]
    ELSE IF b[p + 1] < 128 THEN [ok |-> TRUE, pos |-> p + 1, v |-> b[p + 1]]
    ELSE Only({[ok |-> r.ok, pos |-> r.pos, v |-> (b[p + 1] - 128) + 128 * r.v] :
                r \in {decode_varint(b, p + 1, n + 1)}})
\* one field: the key, then the bytes its wire type says
ReadField(b, p) ==
    Only({
        IF ~key.ok \/ key.v \div 8 = 0 THEN [ok |-> FALSE, pos |-> key.pos, field |-> <<>>]
        ELSE LET tag == key.v \div 8
                 wt == key.v % 8
                 q == key.pos
                 Field(from, to) ==
                    IF to > Len(b) THEN [ok |-> FALSE, pos |-> q, field |-> <<>>]
                    ELSE [ok |-> TRUE, pos |-> to,
                          field |-> <<[tag |-> tag, wire_type |-> wt,
                                       payload |-> SubSeq(b, from + 1, to)]>>]
             IN  CASE wt = 0 ->
                        Only({IF v.ok THEN Field(q, v.pos)
                              ELSE [ok |-> FALSE, pos |-> q, field |-> <<>>] :
                             v \in {decode_varint(b, q, 1)}})
                   [] wt = 1 -> Field(q, q + 8)
                   [] wt = 5 -> Field(q, q + 4)
                   [] wt = 2 ->
                        Only({IF n.ok THEN Field(n.pos, n.pos + n.v)
                              ELSE [ok |-> FALSE, pos |-> q, field |-> <<>>] :
                             n \in {decode_varint(b, q, 1)}})
                   [] OTHER -> [ok |-> FALSE, pos |-> q, field |-> <<>>] :
        key \in {decode_varint(b, p, 1)}})
\* the loop of merge: the fields merged before the first error stay merged
RECURSIVE MergeFields(_, _)
MergeFields(b, p) ==
    IF p >= Len(b) THEN [ok |-> TRUE, fields |-> <<>>]
    ELSE Only({
            IF ~f.ok THEN [ok |-> FALSE, fields |-> <<>>]
            ELSE Only({[ok |-> r.ok, fields |-> f.field \o r.fields] :
                        r \in {MergeFields(b, f.pos)}}) :
            f \in {ReadField(b, p)}})
Message_merge(out, b) ==
    Only({[ok |-> r.ok, out |-> [out EXCEPT !.wire = out.wire \o r.fields]] :
            r \in {MergeFields(b, 0)}})

\* a clear that leaves the record as it is
Message_clear_kept(out) == out
\* Message::clear: every field back to its default
Message_clear(out) == DefaultMeta

\* ---- metadata_decoder.rs --------------------------------------------------
\* decode_transaction_status_meta: [st, out, stored]; stored is the legacy
\* record as it was read, before the conversion
decode_transaction_status_meta(slot, metadata_bytes, out) ==
    IF slot_to_epoch(slot) < BINCODE_EPOCH_CUTOFF
    THEN Only({IF r.ok THEN [st |-> "ok", out |-> stored_meta_to_proto(r.val), stored |-> r.val]
               ELSE [st |-> "error", out |-> out, stored |-> NoneValue] :
              r \in {wincode_deserialize(metadata_bytes)}})
    ELSE Only({[st |-> IF r.ok THEN "ok" ELSE "error", out |-> r.out, stored |-> NoneValue] :
              r \in {Message_merge(out, metadata_bytes)}})
\* a frame is [zstd, body]: zstd is "no" for bytes without the zstd magic
\* (body is the bytes), "ok" for a zstd frame (body is what it decompresses
\* to) and "bad" for bytes with the magic that do not decompress
EmptyFrame == [zstd |-> "no", body |-> <<>>]
decode_transaction_status_meta_from_frame(slot, frame, out) ==
    IF frame = EmptyFrame THEN [st |-> "ok", out |-> Message_clear(out), stored |-> NoneValue]
    ELSE IF frame.zstd = "bad"
    THEN [st |-> "panic", out |-> Message_clear(out), stored |-> NoneValue]
    ELSE decode_transaction_status_meta(slot, frame.body, Message_clear(out))

(***************************************************************************)
(* SpecMeta: decode_transaction_status_meta_from_frame on one frame.       *)
(***************************************************************************)
U64(n) == <<n, 0, 0, 0, 0, 0, 0, 0>>
Str(bs) == U64(Len(bs)) \o bs
\* status Ok, fee 5, pre_balances [7], post_balances []
LegacyHead == <<0, 0, 0, 0>> \o U64(5) \o U64(1) \o U64(7) \o U64(0)
\* a present value of each optional trailing field, discriminant first
TrailingPieces ==
    <<\* inner_instructions: one list of one instruction without stack height
      <<1>> \o U64(1) \o <<0>> \o U64(1) \o <<2>> \o U64(1) \o <<3>> \o U64(0) \o <<0>>,
      \* log_messages: ["hi"]
      <<1>> \o U64(1) \o Str(<<104, 105>>),
      \* pre_token_balances: one balance
      <<1>> \o U64(1) \o <<0>> \o Str(<<109>>) \o U64(0) \o <<6>> \o Str(<<49>>)
            \o Str(<<>>) \o Str(<<>>),
      \* post_token_balances: []
      <<1>> \o U64(0),
      \* rewards: one reward with a reward type and no commission
      <<1>> \o U64(1) \o Str(<<107>>) \o U64(1) \o U64(2) \o <<1, 3>> \o <<0>>,
      \* return_data
      <<1>> \o Fill(32, 9) \o U64(1) \o <<42>>,
      \* compute_units_consumed, cost_units
      <<1>> \o U64(3),
      <<1>> \o U64(4)>>
NumTrailing == Len(TrailingPieces)
\* which of the first k trailing fields are present
Patterns(k) ==
    {[i \in 1..k |-> TRUE], [i \in 1..k |-> FALSE], [i \in 1..k |-> i % 2 = 0]}
TailOf(k, pat) == Concat([i \in 1..k |-> IF pat[i] THEN TrailingPieces[i] ELSE <<0>>] \o <<>>)
\* what follows the first k trailing fields: nothing, a present value that
\* is cut short, or a discriminant that is neither 0 nor 1
CutsAfter(k) ==
    {<<>>} \cup
    (IF k < NumTrailing
     THEN {Take(TrailingPieces[k + 1], n) : n \in 1..(Len(TrailingPieces[k + 1]) - 1)}
            \cup {<<2>>}
     ELSE {})
LegacyBodies ==
    UNION {{LegacyHead \o TailOf(k, pat) \o cut : pat \in Patterns(k), cut \in CutsAfter(k)} :
            k \in 0..NumTrailing}
    \cup {Take(LegacyHead, n) : n \in {3, 4, 11, 12, 19, 20, 28}}
    \cup {<<2, 0, 0, 0>> \o U64(5) \o U64(0) \o U64(0)}
\* messages: fee 5000; fee 5 and a log message; field 10 set; a key without
\* its value; a length beyond the end; tag 0; a field, then wire type 7
TlvBodies ==
    {<<16, 136, 39>>, <<16, 5, 50, 2, 104, 105>>, <<80, 1>>,
     <<16>>, <<50, 5, 104>>, <<0>>, <<16, 5, 23>>, <<>>}
LegacySlots == {0, BINCODE_EPOCH_CUTOFF * 432000 - 432000, BINCODE_EPOCH_CUTOFF * 432000 - 1}
TlvSlots == {BINCODE_EPOCH_CUTOFF * 432000, BINCODE_EPOCH_CUTOFF * 432000 + 1,
             BINCODE_EPOCH_CUTOFF * 432000 + 432000}
\* bodies decoded under every slot, raw or inside a zstd frame
SharedBodies ==
    TlvBodies \cup {LegacyHead, LegacyHead \o TailOf(NumTrailing, [i \in 1..NumTrailing |-> TRUE])}
MetaInputs ==
    {[slot |-> s, frame |-> [zstd |-> "no", body |-> b]] :
        s \in {BINCODE_EPOCH_CUTOFF * 432000 - 1}, b \in LegacyBodies}
    \cup {[slot |-> s, frame |-> [zstd |-> z, body |-> b]] :
            s \in LegacySlots \cup TlvSlots, z \in {"no", "ok"}, b \in SharedBodies}
    \cup {[slot |-> s, frame |-> [zstd |-> "bad", body |-> <<>>]] : s \in LegacySlots \cup TlvSlots}
\* a record left in `out` by an earlier call
StaleMeta == [DefaultMeta EXCEPT !.fee = U64(9), !.log_messages_none = TRUE]

InitMeta ==
    /\ ArchiveIdle /\ ReaderIdle /\ BuildIdle /\ FrameIdle
    /\ BlockhashIdle /\ KeysIdle /\ LogsIdle /\ TxIterIdle
    /\ mdin \in MetaInputs
    /\ mdout = [st |-> "none", out |-> StaleMeta, stored |-> NoneValue]

\* one call, on the `out` of the earlier call
DecodeMeta ==
    /\ mdout.st = "none"
    /\ mdout' = decode_transaction_status_meta_from_frame(mdin.slot, mdin.frame, mdout.out)
    /\ UNCHANGED mdin /\ UNCHANGED tvars
    /\ UNCHANGED rvars /\ UNCHANGED bvars /\ UNCHANGED fvars /\ UNCHANGED lvars
    /\ UNCHANGED kvars /\ UNCHANGED gvars

NextMeta == DecodeMeta

SpecMeta == InitMeta /\ [][NextMeta]_vars

(***************************************************************************)
(* SpecTxIter: a client calls TxIter::next_tx on a block group again and   *)
(* again (car-reader/src/car_block_group.rs).                              *)
(***************************************************************************)
\* what decode_by_hash gives for the cids of the block's entries, in the
\* order the two cursors visit them. A transaction node is [kind, slot,
\* data_ok, data_next, metadata, metadata_next]: data_ok says whether
\* VersionedTransaction::deserialize_into accepts data.data
TxNode(slot, ok, frame) ==
    [kind |-> "tx", slot |-> slot, data_ok |-> ok, data_next |-> FALSE,
     metadata |-> frame, metadata_next |-> FALSE]
TxFrames ==
    {EmptyFrame,
     [zstd |-> "no", body |-> LegacyHead],
     [zstd |-> "no", body |-> <<16, 5, 50, 2, 104, 105>>],
     [zstd |-> "ok", body |-> <<80, 1>>],
     [zstd |-> "no", body |-> <<16, 5, 23>>],
     [zstd |-> "bad", body |-> <<>>]}
TxSlots == {BINCODE_EPOCH_CUTOFF * 432000 - 1, BINCODE_EPOCH_CUTOFF * 432000}
TxNodes ==
    {TxNode(s, TRUE, f) : s \in TxSlots, f \in TxFrames}
    \cup {TxNode(BINCODE_EPOCH_CUTOFF * 432000, FALSE, f) :
            f \in {EmptyFrame, [zstd |-> "no", body |-> <<80, 1>>]}}
    \cup {[TxNode(BINCODE_EPOCH_CUTOFF * 432000, TRUE, EmptyFrame) EXCEPT
                !.data_next = dm[1], !.metadata_next = dm[2]] :
            dm \in {<<TRUE, FALSE>>, <<FALSE, TRUE>>}}
    \cup {[TxNode(0, TRUE, EmptyFrame) EXCEPT !.kind = "entry"]}
TxGroups == UNION {[1..n -> TxNodes] : n \in 0..MaxTxs}

InitTxIter ==
    /\ ArchiveIdle /\ ReaderIdle /\ BuildIdle /\ FrameIdle
    /\ BlockhashIdle /\ KeysIdle /\ LogsIdle /\ MetaIdle
    /\ tin \in {g \o <<>> : g \in TxGroups}
    /\ tpos = 0 /\ reusable_meta = DefaultMeta
    /\ has_tx = FALSE /\ has_meta = FALSE
    /\ tret = NoCall

\* the nodes next_tx skips from tpos on: the ones that are no transaction
Skipped(nodes, p) ==
    LET rest == {i \in (p + 1)..Len(nodes) : nodes[i].kind = "tx"} IN
    IF rest = {} THEN Len(nodes) - p
    ELSE (CHOOSE i \in rest : \A j \in rest : i <= j) - 1 - p

\* TxIter::current_metadata
current_metadata == reusable_meta

\* TxIter::next_tx, with decode_next_tx_in_place
NextTx ==
    /\ tret.op # "panic"
    /\ LET at == tpos + Skipped(tin, tpos) + 1 IN
        IF at > Len(tin)
        THEN /\ tpos' = Len(tin)
             /\ tret' = [op |-> "next_tx", res |-> "None", tx |-> 0, meta |-> <<>>]
             /\ UNCHANGED <<reusable_meta, has_tx, has_meta>>
        ELSE IF tin[at].data_next \/ tin[at].metadata_next
        THEN /\ tpos' = at
             /\ tret' = [op |-> "panic", res |-> "panic", tx |-> at, meta |-> <<>>]
             /\ UNCHANGED <<reusable_meta, has_tx, has_meta>>
        ELSE LET has_metadata == tin[at].metadata # EmptyFrame
                 d == decode_transaction_status_meta_from_frame(
                        tin[at].slot, tin[at].metadata, reusable_meta)
             IN  /\ tpos' = at
                 /\ has_tx' = (~(has_metadata /\ d.st # "ok") /\ tin[at].data_ok)
                 /\ reusable_meta' = IF has_metadata THEN d.out ELSE reusable_meta
                 /\ IF has_metadata /\ d.st = "panic"
                    THEN /\ tret' = [op |-> "panic", res |-> "panic", tx |-> at, meta |-> <<>>]
                         /\ UNCHANGED has_meta
                    ELSE IF has_metadata /\ d.st = "error"
                    THEN /\ tret' = [op |-> "next_tx", res |-> "TxMetaDecode", tx |-> at,
                                     meta |-> <<>>]
                         /\ UNCHANGED has_meta
                    ELSE IF ~tin[at].data_ok
                    THEN /\ tret' = [op |-> "next_tx", res |-> "TxDecode", tx |-> at,
                                     meta |-> <<>>]
                         /\ UNCHANGED has_meta
                    ELSE /\ has_meta' = has_metadata
                         /\ tret' = [op |-> "next_tx", res |-> "Some", tx |-> at,
                                     meta |-> IF has_metadata THEN <<reusable_meta'>>
                                              ELSE <<>>]
    /\ UNCHANGED tin /\ UNCHANGED mvars
    /\ UNCHANGED rvars /\ UNCHANGED bvars /\ UNCHANGED fvars /\ UNCHANGED lvars
    /\ UNCHANGED kvars /\ UNCHANGED gvars

NextTxIter == NextTx

SpecTxIter == InitTxIter /\ [][NextTxIter]_vars


(***************************************************************************)
(* SpecBuild: build::run for one epoch (epoch 0, so no previous epoch),    *)
(* the process being killed at any step, and a re-run over what the first  *)
(* run left on disk.                                                       *)
(***************************************************************************)
\* archives the pipeline is run on: one-byte size varints, and a stream that
\* ends at a section's first byte or right after it
SectionStarts(shape, wide) ==
    LET a == [shape |-> shape, wide |-> wide] IN
    {GroupEnd(a, g - 1)
        + Len(Concat([i \in 1..j |->
                SectionBytes(10 * g + i, EntryPayload(g, i), wide)])) :
        <<g, j>> \in {x \in (1..Len(shape)) \X (0..2) : x[2] <= shape[x[1]]}}
        \cup {GroupEnd(a, Len(shape))}

BuildArchives ==
    UNION {
        LET starts == SectionStarts(sh, FALSE)
            len == GroupEnd([shape |-> sh, wide |-> FALSE], Len(sh))
            bounds == Boundaries([shape |-> sh, wide |-> FALSE])
        IN  {a \in [shape : {sh}, wide : {FALSE},
                    ending : {"eof", "ioerr", "zero", "badcid", "overflow"},
                    cut : {c \in starts \cup {p + 1 : p \in starts} : c <= len}] :
                a.ending \in {"zero", "badcid", "overflow"} => a.cut \in bounds}
        : sh \in Shapes}

InitBuild ==
    /\ archive \in BuildArchives
    /\ stream = Stream(archive)
    /\ ReaderIdle
    /\ resume = FALSE /\ rerun = FALSE /\ pc = "idle" /\ fs = NoFiles
    /\ mem = NoMem /\ log = <<>> /\ cbCalls = 0 /\ rdErr = FALSE
    /\ FrameIdle
    /\ LibIdle

Running == pc \in {"bh_decide", "bh_stream", "bh_finish",
                   "reg_decide", "reg_stream", "reg_finish", "reg_write",
                   "cmp_decide", "cmp_stream", "cmp_finish"}

Decision(phase, file, d) ==
    [phase |-> phase, resume |-> resume, file |-> file, decision |-> d]

\* the command line is entered: build <epoch> with or without --resume
StartRun ==
    /\ pc = "idle" \/ (pc \in {"done", "failed", "crashed"} /\ ~rerun)
    /\ resume' \in BOOLEAN
    /\ rerun' = (pc # "idle")
    /\ pc' = "bh_decide"
    /\ mem' = NoMem /\ log' = <<>> /\ cbCalls' = 0 /\ rdErr' = FALSE
    /\ pos' = 0 /\ group' = EmptyGroup
    /\ UNCHANGED <<archive, stream, client, results, fs>>
    /\ UNCHANGED fvars
    /\ UNCHANGED lvars
    /\ UNCHANGED kvars /\ UNCHANGED gvars /\ UNCHANGED mvars /\ UNCHANGED tvars

\* the start of stream_car_blocks: a new reader over the archive
OpenStream ==
    /\ pos' = 0 /\ group' = EmptyGroup /\ cbCalls' = 0

\* build::run, first phase: skip, or start build_blockhash_registry (the
\* temporary file is created)
BhDecide ==
    /\ pc = "bh_decide"
    /\ IF resume /\ file_nonempty(fs.bh)
       THEN /\ log' = Append(log, Decision("bh", fs.bh, "skip"))
            /\ pc' = "reg_decide"
            /\ UNCHANGED <<fs, pos, group, cbCalls>>
       ELSE /\ log' = Append(log, Decision("bh", fs.bh, "run"))
            /\ fs' = [fs EXCEPT !.bh_tmp = File(<<>>)]
            /\ OpenStream
            /\ pc' = "bh_stream"
    /\ UNCHANGED <<archive, stream, client, results, resume, rerun, mem, rdErr>>
    /\ UNCHANGED fvars
    /\ UNCHANGED lvars
    /\ UNCHANGED kvars /\ UNCHANGED gvars /\ UNCHANGED mvars /\ UNCHANGED tvars

\* one turn of stream_car_blocks' loop in the blockhash phase
BhStreamStep ==
    /\ pc = "bh_stream"
    /\ LET r == read_until_block_into(archive, stream, pos) IN
        /\ pos' = r.pos
        /\ IF stream_car_blocks_next(r) = "call"
           THEN LET c == BhCallback(r.group) IN
                /\ cbCalls' = cbCalls + 1
                /\ rdErr' = rdErr
                /\ IF c.ok
                   THEN /\ fs' = [fs EXCEPT !.bh_tmp = File(@.data \o c.push)]
                        /\ group' = EmptyGroup
                        /\ pc' = pc
                   ELSE /\ fs' = fs
                        /\ group' = r.group
                        /\ pc' = "failed"
           ELSE /\ rdErr' = (r.ret = "Err")
                /\ group' = r.group
                /\ pc' = "bh_finish"
                /\ UNCHANGED <<fs, cbCalls>>
    /\ UNCHANGED <<archive, stream, client, results, resume, rerun, mem, log>>
    /\ UNCHANGED fvars
    /\ UNCHANGED lvars
    /\ UNCHANGED kvars /\ UNCHANGED gvars /\ UNCHANGED mvars /\ UNCHANGED tvars

\* w.finish() and the rename of the temporary file to blockhash_registry.bin
BhFinish ==
    /\ pc = "bh_finish"
    /\ fs' = [fs EXCEPT !.bh = fs.bh_tmp, !.bh_tmp = Absent]
    /\ pc' = "reg_decide"
    /\ UNCHANGED <<archive, stream, client, pos, group, results, resume, rerun, mem, log,
                   cbCalls, rdErr>>
    /\ UNCHANGED fvars
    /\ UNCHANGED lvars
    /\ UNCHANGED kvars /\ UNCHANGED gvars /\ UNCHANGED mvars /\ UNCHANGED tvars

\* build::run, second phase: skip, or start build_registry
RegDecide ==
    /\ pc = "reg_decide"
    /\ IF resume /\ file_nonempty(fs.reg)
       THEN /\ log' = Append(log, Decision("reg", fs.reg, "skip"))
            /\ pc' = "cmp_decide"
            /\ UNCHANGED <<pos, group, cbCalls, mem>>
       ELSE /\ log' = Append(log, Decision("reg", fs.reg, "run"))
            /\ mem' = NoMem
            /\ OpenStream
            /\ pc' = "reg_stream"
    /\ UNCHANGED <<archive, stream, client, results, resume, rerun, fs, rdErr>>
    /\ UNCHANGED fvars
    /\ UNCHANGED lvars
    /\ UNCHANGED kvars /\ UNCHANGED gvars /\ UNCHANGED mvars /\ UNCHANGED tvars

\* one turn of stream_car_blocks' loop in the counting phase
RegStreamStep ==
    /\ pc = "reg_stream"
    /\ LET r == read_until_block_into(archive, stream, pos) IN
        /\ pos' = r.pos
        /\ IF stream_car_blocks_next(r) = "call"
           THEN LET c == RegCallback(r.group, mem.counts) IN
                /\ cbCalls' = cbCalls + 1
                /\ rdErr' = rdErr
                /\ mem' = [mem EXCEPT !.counts = c.counts]
                /\ IF c.ok
                   THEN group' = EmptyGroup /\ pc' = pc
                   ELSE group' = r.group /\ pc' = "failed"
           ELSE /\ rdErr' = (r.ret = "Err")
                /\ group' = r.group
                /\ pc' = "reg_finish"
                /\ UNCHANGED <<mem, cbCalls>>
    /\ UNCHANGED <<archive, stream, client, results, resume, rerun, fs, log>>
    /\ UNCHANGED fvars
    /\ UNCHANGED lvars
    /\ UNCHANGED kvars /\ UNCHANGED gvars /\ UNCHANGED mvars /\ UNCHANGED tvars

\* the sort, and write_registry's File::create(path) on registry.bin
RegFinish ==
    /\ pc = "reg_finish"
    /\ mem' = [mem EXCEPT !.keys = SortedRegistry(mem.counts)]
    /\ fs' = [fs EXCEPT !.reg = File(<<>>)]
    /\ pc' = "reg_write"
    /\ UNCHANGED <<archive, stream, client, pos, group, results, resume, rerun, log,
                   cbCalls, rdErr>>
    /\ UNCHANGED fvars
    /\ UNCHANGED lvars
    /\ UNCHANGED kvars /\ UNCHANGED gvars /\ UNCHANGED mvars /\ UNCHANGED tvars

\* write_registry: the next key reaches the file, or (all written) the
\* flush, after which build_registry returns
RegWrite ==
    /\ pc = "reg_write"
    /\ IF Len(fs.reg.data) < Len(mem.keys)
       THEN /\ fs' = [fs EXCEPT !.reg = File(Append(@.data, mem.keys[Len(@.data) + 1]))]
            /\ pc' = pc
       ELSE /\ fs' = fs
            /\ pc' = "cmp_decide"
    /\ UNCHANGED <<archive, stream, client, pos, group, results, resume, rerun, mem, log,
                   cbCalls, rdErr>>
    /\ UNCHANGED fvars
    /\ UNCHANGED lvars
    /\ UNCHANGED kvars /\ UNCHANGED gvars /\ UNCHANGED mvars /\ UNCHANGED tvars

\* build::run, third phase: skip, or start compact::run (the registries are
\* loaded, the temporary file is created)
CmpDecide ==
    /\ pc = "cmp_decide"
    /\ IF resume /\ file_nonempty(fs.cmp)
       THEN /\ log' = Append(log, Decision("cmp", fs.cmp, "skip"))
            /\ pc' = "done"
            /\ UNCHANGED <<fs, pos, group, cbCalls, mem>>
       ELSE /\ log' = Append(log, Decision("cmp", fs.cmp, "run"))
            /\ IF ~fs.reg.exists \/ ~fs.bh.exists
               THEN /\ pc' = "failed"
                    /\ UNCHANGED <<fs, pos, group, cbCalls, mem>>
               ELSE /\ mem' = [NoMem EXCEPT !.registry = fs.reg.data]
                    /\ fs' = [fs EXCEPT !.cmp_tmp = File(<<>>)]
                    /\ OpenStream
                    /\ pc' = "cmp_stream"
    /\ UNCHANGED <<archive, stream, client, results, resume, rerun, rdErr>>
    /\ UNCHANGED fvars
    /\ UNCHANGED lvars
    /\ UNCHANGED kvars /\ UNCHANGED gvars /\ UNCHANGED mvars /\ UNCHANGED tvars

\* one turn of stream_car_blocks' loop in the compact phase
CmpStreamStep ==
    /\ pc = "cmp_stream"
    /\ LET r == read_until_block_into(archive, stream, pos) IN
        /\ pos' = r.pos
        /\ IF stream_car_blocks_next(r) = "call"
           THEN LET c == CmpCallback(r.group, mem.registry, mem.block_count) IN
                /\ cbCalls' = cbCalls + 1
                /\ rdErr' = rdErr
                /\ IF c.ok
                   THEN /\ fs' = [fs EXCEPT !.cmp_tmp = File(Append(@.data, c.rec))]
                        /\ mem' = [mem EXCEPT !.block_count = @ + 1]
                        /\ group' = EmptyGroup
                        /\ pc' = pc
                   ELSE /\ fs' = fs
                        /\ mem' = mem
                        /\ group' = r.group
                        /\ pc' = "failed"
           ELSE /\ rdErr' = (r.ret = "Err")
                /\ group' = r.group
                /\ pc' = "cmp_finish"
                /\ UNCHANGED <<fs, mem, cbCalls>>
    /\ UNCHANGED <<archive, stream, client, results, resume, rerun, log>>
    /\ UNCHANGED fvars
    /\ UNCHANGED lvars
    /\ UNCHANGED kvars /\ UNCHANGED gvars /\ UNCHANGED mvars /\ UNCHANGED tvars

\* writer.flush() and the rename of the temporary file to compact.bin
CmpFinish ==
    /\ pc = "cmp_finish"
    /\ fs' = [fs EXCEPT !.cmp = fs.cmp_tmp, !.cmp_tmp = Absent]
    /\ pc' = "done"
    /\ UNCHANGED <<archive, stream, client, pos, group, results, resume, rerun, mem, log,
                   cbCalls, rdErr>>
    /\ UNCHANGED fvars
    /\ UNCHANGED lvars
    /\ UNCHANGED kvars /\ UNCHANGED gvars /\ UNCHANGED mvars /\ UNCHANGED tvars

\* the process is killed: its memory is gone, the files stay as they are
Crash ==
    /\ Running /\ ~rerun
    /\ pc' = "crashed"
    /\ mem' = NoMem /\ pos' = 0 /\ group' = EmptyGroup
    /\ log' = <<>> /\ cbCalls' = 0 /\ rdErr' = FALSE
    /\ UNCHANGED <<archive, stream, client, results, resume, rerun, fs>>
    /\ UNCHANGED fvars
    /\ UNCHANGED lvars
    /\ UNCHANGED kvars /\ UNCHANGED gvars /\ UNCHANGED mvars /\ UNCHANGED tvars

\* the user deletes compact.bin after a run
DeleteCompact ==
    /\ pc \in {"done", "failed", "crashed"} /\ ~rerun
    /\ fs.cmp.exists
    /\ fs' = [fs EXCEPT !.cmp = Absent]
    /\ UNCHANGED <<archive, stream, client, pos, group, results, resume, rerun, pc, mem,
                   log, cbCalls, rdErr>>
    /\ UNCHANGED fvars
    /\ UNCHANGED lvars
    /\ UNCHANGED kvars /\ UNCHANGED gvars /\ UNCHANGED mvars /\ UNCHANGED tvars

NextBuild ==
    \/ StartRun \/ BhDecide \/ BhStreamStep \/ BhFinish
    \/ RegDecide \/ RegStreamStep \/ RegFinish \/ RegWrite
    \/ CmpDecide \/ CmpStreamStep \/ CmpFinish
    \/ Crash \/ DeleteCompact

SpecBuild == InitBuild /\ [][NextBuild]_vars

(***************************************************************************)
(* Claims about the archive reader (SpecReader).                           *)
(***************************************************************************)
\* the call delivered a group to its caller / signalled end-of-stream
Delivered(r) == r.ret \in {"Ok(true)", "Some"}
EndOfStream(r) == r.ret \in {"Ok(false)", "None"}

\* C1: for an archive of N complete groups, the first N calls of
\* read_until_block_into, and of CarStream::next_group, deliver the N groups
\* in archive order, and every later call signals end-of-stream: no further
\* group is delivered.
C1_ExactlyNGroupsThenEnd ==
    Complete(archive) =>
        \A i \in 1..Len(results) :
            IF i <= NumComplete(archive)
            THEN Delivered(results[i]) /\ results[i].block = BlockPayload(i)
            ELSE EndOfStream(results[i])

\* the part of C1 that is about CarBlockReader::read_until_block_into alone
C1_ReaderAlone == client = "reader" => C1_ExactlyNGroupsThenEnd

\* C2: when the stream ends inside a group, the call of
\* read_until_block_into that runs into the end returns an error, not the
\* clean end-of-stream.
C2_TruncatedMidGroupIsError ==
    (client = "reader" /\ MidGroup(archive)) =>
        \A i \in 1..Len(results) :
            i = NumComplete(archive) + 1 => results[i].ret = "Err"

(***************************************************************************)
(* Claims about the postcard frame codec (SpecFrame).                      *)
(***************************************************************************)
\* C5: read returns None only when no byte was available where the length
\* prefix would start; when the stream ends after 1 to 3 bytes of the length,
\* or inside the payload, read does not return None (it returns an error).
C5_NoneOnlyAtFrameBoundary ==
    \A i \in 1..Len(frames) : frames[i].ret = "None" => frames[i].avail = 0

\* C6: the writer's output is the frames in write order, each a 4-byte
\* little-endian length N and N payload bytes; read back whole, the k-th
\* read gives the k-th payload written (the record itself when it was
\* written with write) and the read after the last frame gives None.
C6_FramesRoundTrip ==
    /\ sink = Concat([i \in 1..Len(written) |->
                <<Len(written[i].payload), 0, 0, 0>> \o written[i].payload])
    /\ (fpc = "reading" /\ source = sink) =>
        \A k \in 1..Len(frames) :
            IF k <= Len(written)
            THEN /\ frames[k].buf = written[k].payload
                 /\ frames[k].ret # "None"
                 /\ written[k].api = "write" =>
                        (frames[k].ret = "Some" /\ frames[k].v = written[k].v)
            ELSE frames[k].ret = "None"

\* three frames, written with write and with write_bytes, a two-byte record
\* among them, read back whole and followed by None
C6_Witness ==
    /\ fpc = "reading" /\ source = sink /\ Len(written) = 3
    /\ \E i \in 1..3 : written[i].api = "write" /\ written[i].v = 300
    /\ \E i \in 1..3 : written[i].api = "write_bytes" /\ written[i].payload # <<>>
    /\ Len(frames) = 4 /\ frames[4].ret = "None"
    /\ \A k \in 1..3 : frames[k].buf = written[k].payload

(***************************************************************************)
(* What one uninterrupted run over an empty epoch directory writes,        *)
(* as functions of the input.                                              *)
(***************************************************************************)
\* the groups stream_car_blocks hands to a callback that fails only when the
\* block node does not decode, and whether the loop is left with Ok(())
RECURSIVE StreamAll(_, _, _, _)
StreamAll(a, bytes, p, acc) ==
    LET r == read_until_block_into(a, bytes, p) IN
    IF stream_car_blocks_next(r) = "return_ok" THEN [ok |-> TRUE, groups |-> acc]
    ELSE IF ~DecodesAsBlock(r.group.block_payload) THEN [ok |-> FALSE, groups |-> acc]
    ELSE StreamAll(a, bytes, r.pos, Append(acc, r.group))

Streamed == StreamAll(archive, stream, 0, <<>>)

RECURSIVE CountAll(_, _)
CountAll(counts, gs) ==
    IF gs = <<>> THEN counts
    ELSE CountAll(RegCallback(Head(gs), counts).counts, Tail(gs))

FreshOk == Streamed.ok
FreshBh == Concat([i \in 1..Len(Streamed.groups) |-> BhCallback(Streamed.groups[i]).push])
FreshReg == SortedRegistry(CountAll(<<>>, Streamed.groups))
FreshCmp == [i \in 1..Len(Streamed.groups) |->
                CmpCallback(Streamed.groups[i], FreshReg, i - 1).rec]

(***************************************************************************)
(* Claims about the optimizer pipeline (SpecBuild).                        *)
(***************************************************************************)
\* C3: when the archive ends cleanly between groups, stream_car_blocks calls
\* the callback once per complete group, not for the end-of-stream signal,
\* and the phase does not fail.
C3_CleanEofCallsOncePerGroup ==
    (Complete(archive) /\ ~rerun) =>
        (cbCalls <= NumComplete(archive) /\ pc # "failed")

\* C4: once the reader has returned a fatal error to stream_car_blocks, the
\* phase returns an error: it does not go on to finish its output.
C4_ReaderErrorFailsPhase == rdErr => pc = "failed"

C7_DecisionTaken ==
    [][(pc \in {"bh_decide", "reg_decide", "cmp_decide"} /\ pc' # pc /\ pc' # "crashed") =>
        LET d == log'[Len(log')] IN
        /\ Len(log') = Len(log) + 1
        /\ d.decision = "skip" =>
            pc' = (CASE pc = "bh_decide" -> "reg_decide"
                     [] pc = "reg_decide" -> "cmp_decide"
                     [] pc = "cmp_decide" -> "done")
        /\ d.decision = "run" =>
            pc' \in (CASE pc = "bh_decide" -> {"bh_stream"}
                       [] pc = "reg_decide" -> {"reg_stream"}
                       [] pc = "cmp_decide" -> {"cmp_stream", "failed"})]_vars

\* C8: at every point, a final output path that holds a file of nonzero
\* length holds the phase's complete output.
C8_FinalPathNeverPartial ==
    /\ file_nonempty(fs.bh) => fs.bh.data = FreshBh
    /\ file_nonempty(fs.reg) => fs.reg.data = FreshReg
    /\ file_nonempty(fs.cmp) => fs.cmp.data = FreshCmp

\* the two outputs that are written under a temporary name and renamed
C8_RenamedOutputsNeverPartial ==
    /\ file_nonempty(fs.bh) => fs.bh.data = FreshBh
    /\ file_nonempty(fs.cmp) => fs.cmp.data = FreshCmp

\* C9: when a re-run with --resume over what an earlier run left behind has
\* ended, registry.bin and compact.bin are those of a fresh uninterrupted run.
C9_ResumeGivesFreshOutputs ==
    (rerun /\ resume /\ pc \in {"done", "failed"} /\ FreshOk) =>
        (fs.reg = File(FreshReg) /\ fs.cmp = File(FreshCmp))

\* C10: the k-th record (k from 0) written to compact.bin, and to the
\* temporary file it is renamed from, has header blockhash id k and previous
\* blockhash id max(0, k - 1).
C10_In(f) ==
    \A k \in 0..(Len(f.data) - 1) :
        /\ f.data[k + 1].header.blockhash = k
        /\ f.data[k + 1].header.previous_blockhash = IF k = 0 THEN 0 ELSE k - 1

C12_Encoded(c) ==
    /\ c.res.ok
    /\ c.res.recent_blockhash =
        IF c.h \in DOMAIN bh.index
        THEN [tag |-> "Id", id |-> bh.index[c.h]]
        ELSE [tag |-> "Nonce", bytes |-> c.h]

C12_HitIsIdMissIsNonce == bhret.op = "encode" => C12_Encoded(bhret)

\* the same for the optimizer's own to_compact_transaction alone
C12_OptimizerCopy ==
    (bhret.op = "encode" /\ bhret.impl = "optimizer") => C12_Encoded(bhret)

C14_SortedOnceIdIsPosition ==
    kpc \in {"load", "encode", "done"} =>
        /\ {kkeys[p] : p \in 1..Len(kkeys)} = DOMAIN kcounts
        /\ \A p, q \in 1..Len(kkeys) : p # q => kkeys[p] # kkeys[q]
        /\ \A p \in 1..(Len(kkeys) - 1) :
              \/ kcounts[kkeys[p]] > kcounts[kkeys[p + 1]]
              \/ /\ kcounts[kkeys[p]] = kcounts[kkeys[p + 1]]
                 /\ kkeys[p] < kkeys[p + 1]
        /\ kindex.built =>
              /\ \A p \in 1..Len(kkeys) :
                    /\ lookup_unchecked(kindex, kkeys[p]) = p
                    /\ KeyStore_get(kkeys, p) = kkeys[p]
              /\ \A s \in 1..Len(kindex.values) : kindex.values[s] # 0
              /\ KeyStore_get(kkeys, 0) = 0

\* an index over at least three keys, two of them with equal counts and a
\* larger key in front of a smaller one with a lower count
C14_Witness ==
    /\ kindex.built /\ Len(kkeys) >= 3
    /\ \E p \in 1..(Len(kkeys) - 1) :
          kcounts[kkeys[p]] = kcounts[kkeys[p + 1]]
    /\ \E p \in 1..(Len(kkeys) - 1) :
          kcounts[kkeys[p]] > kcounts[kkeys[p + 1]] /\ kkeys[p] > kkeys[p + 1]


\* the registry file's keys, and whether the registry phase has written it
RegistryKeys == {kkeys[p] : p \in 1..Len(kkeys)}
RegistryWritten == kpc \in {"load", "encode", "done"}

\* C15: every registry the counting pass produces contains the builtin
\* keys, at least the compute-budget program key, even when no
\* transaction references them
C15_RegistryHasBuiltins == RegistryWritten => CB_PK \in RegistryKeys

Range(f) == {f[i] : i \in 1..Len(f)}

\* every key id stored in a compact transaction with metadata
TxKeyIds(t) ==
    Range(t.tx.account_keys) \cup Range(t.tx.address_table_lookups)
    \cup UNION {Range(m.loaded_writable_indices) \cup Range(m.loaded_readonly_indices)
                \cup Range(m.logs) \cup Range(m.rewards) \cup Range(m.return_data)
                \cup UNION {{b.mint_index, b.owner_index, b.program_id_index} :
                        b \in Range(m.pre_token_balances) \cup Range(m.post_token_balances)}
                : m \in Range(t.metadata)}

RecordKeyIds == UNION {TxKeyIds(t) : t \in Range(kout.txs)}

\* C16: every key id stored in a compact record is between 1 and the
\* number of registry keys, and looking up the key the store gives for it
\* returns it
C16_StoredIdsAreValid ==
    kout.st = "ok" =>
        \A i \in RecordKeyIds :
            /\ 1 <= i /\ i <= Len(kkeys)
            /\ lookup_unchecked(kindex, KeyStore_get(kkeys, i)) = i

\* C17: every key the encoding pass hands to the index was counted by the
\* counting pass over the same block, hence is in the registry
C17_AskedKeysWereCounted ==
    kout.st = "ok" =>
        /\ Range(kout.asked) \subseteq DOMAIN kcounts
        /\ Range(kout.asked) \subseteq RegistryKeys

\* C18: a lookup of a key that is not in the registry aborts; no record is
\* emitted in which the key has id 0 or the id of another key
C18_MissAborts ==
    /\ (kret.op = "lookup_unchecked" /\ kret.arg \notin RegistryKeys) => kret.res = Panic
    /\ kout.st = "ok" => Range(kout.asked) \subseteq RegistryKeys

\* the block's first transaction has one token balance and no log messages
\* to compact, and a mint, owner or program id that is not base58
BadTokenString ==
    /\ kin # <<>> /\ kin[1].metadata # <<>>
    /\ LET m == kin[1].metadata[1]
           tbs == m.pre_token_balances \o m.post_token_balances
       IN  /\ m.log_messages_none /\ Len(tbs) = 1 /\ tbs[1].amount_ok
           /\ \E s \in {tbs[1].mint, tbs[1].owner, tbs[1].program_id} : s = BadStr

\* C19: a token-balance mint, owner or program id that is not valid base58
\* aborts neither pass: it is not counted, and the encoding pass stores id
\* 0 in its field and goes on
C19_BadTokenStringIsIdZero ==
    BadTokenString =>
        /\ kpc # "panicked"
        /\ kpc = "done" =>
              /\ kout.st = "ok"
              /\ LET m == kin[1].metadata[1]
                     tb == (m.pre_token_balances \o m.post_token_balances)[1]
                     cm == kout.txs[1].metadata[1]
                     b == (cm.pre_token_balances \o cm.post_token_balances)[1]
                 IN  /\ tb.mint = BadStr => b.mint_index = 0
                     /\ tb.owner = BadStr => b.owner_index = 0
                     /\ tb.program_id = BadStr => b.program_id_index = 0

\* the part of C19 the code keeps: with a mint that parses, an owner or a
\* program id that does not is stored as id 0
C19_OwnerAndProgramOnly ==
    (BadTokenString /\ Pubkey_from_str(
        (kin[1].metadata[1].pre_token_balances
         \o kin[1].metadata[1].post_token_balances)[1].mint).ok)
    => C19_BadTokenStringIsIdZero


\* every metadata of the block has no log messages to compact
NoLogs == \A i \in 1..Len(kin) : \A m \in Range(kin[i].metadata) : m.log_messages_none
\* every metadata of the block has neither rewards nor return data
NoRewardsNoReturn ==
    \A i \in 1..Len(kin) : \A m \in Range(kin[i].metadata) :
        m.rewards = <<>> /\ (m.return_data_none \/ m.return_data = <<>>)

\* C17 without the log lines: still refuted by rewards and return data
C17_WithoutLogs == NoLogs => C17_AskedKeysWereCounted

\* the part of C17 the code keeps: message keys, lookup-table keys, loaded
\* addresses and token-balance keys are counted
C17_CountedFields == (NoLogs /\ NoRewardsNoReturn) => C17_AskedKeysWereCounted

NonEmptyLines(lines) == SelectSeq(lines, LAMBDA l : trim_end(l) # <<>>)
Rendered == logpc \in {"reparse", "done"}

(***************************************************************************)
(* C21: for every list of log lines L, render_logs(parse_logs(L)) holds    *)
(* exactly one string per non-empty line of L, in the same order, and each *)
(* rendered string equals its input line up to whitespace trimming.        *)
(***************************************************************************)
C21_RenderEqualsInput ==
    Rendered =>
        /\ Len(rendered) = Len(NonEmptyLines(loglines))
        /\ \A i \in 1..Len(rendered) : trim(rendered[i]) = trim(NonEmptyLines(loglines)[i])
\* the part of C21 the code keeps: one string per non-empty line
C21_OneStringPerLine == Rendered => Len(rendered) = Len(NonEmptyLines(loglines))

(***************************************************************************)
(* C22: parse_logs never aborts on any list of strings and emits exactly   *)
(* one event per non-empty line; a line whose shape is recognised but      *)
(* whose sub-parse fails (invalid base64, invalid integer, a token in a    *)
(* pubkey position that is no valid pubkey) is recorded as Unparsed with   *)
(* the line's text, and parsing goes on with the next line.                *)
(***************************************************************************)
\* lines of LogLineSet of a recognised shape whose sub-parse fails
SubParseFailLines ==
    {<<"Program", SP, "data", ":", SP, "Q">>,
     <<"Program", SP, "return", ":", SP, PK(1), SP, "QQ==", SP, "Q">>,
     <<"Program", SP, "return", ":", SP, "bad", SP, "QQ==">>,
     <<"Program", SP, "consumption", ":", SP, "x">> \o UnitsRemaining,
     ProgramPk(1) \o <<"invoke", SP, "[", "x", "]">>,
     ProgramPk(1) \o <<"consumed", SP, "x", SP, "of", SP, "7">> \o ComputeUnits,
     ProgramPk(CB_PK) \o <<"request", SP, "units", SP, "x">>,
     <<"Program", SP, "bad">> \o LogMid \o <<"hello">>}
OneEventPerLine ==
    /\ Len(parsed.events) = Len(NonEmptyLines(loglines))
    /\ \A i \in 1..Len(parsed.events) :
        NonEmptyLines(loglines)[i] \in SubParseFailLines =>
            /\ parsed.events[i].ev = "Unparsed"
            /\ resolve(parsed.strings, parsed.events[i].text) = trim_end(NonEmptyLines(loglines)[i])
C22_ParseNeverAborts == parsed.st # "none" => parsed.st = "ok" /\ OneEventPerLine
\* the part of C22 the code keeps: what a parse that returns has recorded
C22_UnparsedWhenReturned == parsed.st = "ok" => OneEventPerLine

(***************************************************************************)
(* C23: every StrId held by an event of a parse_logs result, the ids of    *)
(* nested program-log and system-log values included, is below the length  *)
(* of the result's string table, and every DataId is below the length of   *)
(* its data table.                                                         *)
(***************************************************************************)
\* the StrId fields of a ProgramLog value
StrIdsOfProgramLog(l) ==
    CASE l.pl = "AnchorInstruction" -> {l.name}
      [] l.pl = "AnchorErrorOccurred" -> {l.code, l.msg}
      [] l.pl = "AnchorErrorThrown" -> {l.file, l.code, l.msg}
      [] l.pl = "Unknown" -> {l.text}
      [] l.pl = "Token2022" -> IF "error" \in DOMAIN l.t THEN {l.t.error} ELSE {}
      [] OTHER -> {}
\* the StrId fields of a LogEvent
StrIdsOfEvent(e) ==
    CASE e.ev \in {"Plain", "Unparsed", "UnknownProgram", "UnknownAccount", "FailedToComplete"} ->
            {e.text}
      [] e.ev = "Failure" -> {e.reason}
      [] e.ev = "ProgramLogError" -> {e.msg}
      [] e.ev \in {"ProgramLog", "ProgramIdLog"} -> StrIdsOfProgramLog(e.log)
      [] e.ev = "System" ->
            IF e.sys.s = "AuthorizeNonceAccount" THEN {e.sys.msg}
            ELSE IF e.sys.s = "Unparsed" THEN {e.sys.text} ELSE {}
      [] OTHER -> {}
\* the DataId fields of a LogEvent
DataIdsOfEvent(e) == IF e.ev \in {"Data", "Return"} THEN {e.data} ELSE {}
IdsInTables(cls) ==
    \A i \in 1..Len(cls.events) :
        /\ \A id \in StrIdsOfEvent(cls.events[i]) : id \in 0..(Len(cls.strings) - 1)
        /\ \A id \in DataIdsOfEvent(cls.events[i]) : id \in 0..(Len(cls.data) - 1)
InstructionNameOf(line) ==
    LET p == strip_prefix(trim_end(line), ProgramLogPrefix \o InstructionPrefix) IN
    IF p.some THEN trim(p.rest) ELSE <<>>
IsAnchorInstruction(e, st, name) ==
    /\ e.ev = "ProgramLog"
    /\ e.log.pl = "AnchorInstruction"
    /\ resolve(st, e.log.name) = name
C24_InstructionIsAnchor ==
    parsed.st = "ok" =>
        /\ \A i \in 1..Len(parsed.events) :
            InstructionNameOf(NonEmptyLines(loglines)[i]) # <<>> =>
                IsAnchorInstruction(parsed.events[i], parsed.strings,
                                    InstructionNameOf(NonEmptyLines(loglines)[i]))
        /\ loglines = S1Lines =>
            /\ Len(parsed.events) = 3
            /\ parsed.events[1] = [ev |-> "Invoke", program |-> lookup_unchecked(LogIndex, SYSTEM_PK), depth |-> 1]
            /\ IsAnchorInstruction(parsed.events[2], parsed.strings, <<"Transfer">>)
            /\ parsed.events[3] = [ev |-> "Success", program |-> lookup_unchecked(LogIndex, SYSTEM_PK)]
\* the part of C24 the code keeps: a name no earlier parser claims
C24_UnclaimedNameIsAnchor ==
    parsed.st = "ok" =>
        \A i \in 1..Len(parsed.events) :
            InstructionNameOf(NonEmptyLines(loglines)[i]) = <<"Swap">> =>
                IsAnchorInstruction(parsed.events[i], parsed.strings, <<"Swap">>)

(***************************************************************************)
(* C25: a transaction node whose data frame or metadata frame has a        *)
(* continuation (data.next or metadata.next present) makes TxIter, the     *)
(* counting pass and the encoding pass abort with a fatal error; such a    *)
(* transaction is never counted or emitted from its first frame alone.     *)
(***************************************************************************)
HasContinuation(txs) == \E i \in 1..Len(txs) : txs[i].data_next \/ txs[i].metadata_next
C25_ContinuationAborts ==
    HasContinuation(kin) =>
        /\ kpc \in {"count", "panicked"}
        /\ kcounts = <<>>
        /\ kout = NoOutput

(***************************************************************************)
(* C27: a loaded-writable or loaded-readonly address that is not exactly   *)
(* 32 bytes long is skipped without error by the counting pass and by the  *)
(* encoding pass; every 32-byte loaded address is counted and mapped to    *)
(* its id, in the original order.                                          *)
(***************************************************************************)
\* the 32-byte addresses of a list, in order
Only32(addrs) == SelectSeq(addrs, LAMBDA a : a.len = 32)
HasShortLoaded(txs) ==
    \E i \in 1..Len(txs) : \E m \in Range(txs[i].metadata) :
        \E a \in Range(m.loaded_writable_addresses \o m.loaded_readonly_addresses) : a.len # 32
C27_ShortLoadedAddressSkipped ==
    /\ HasShortLoaded(kin) => kpc # "panicked"
    /\ kpc \notin {"count", "panicked"} =>
        \A i \in 1..Len(kin) : \A m \in Range(kin[i].metadata) :
            \A a \in Range(Only32(m.loaded_writable_addresses \o m.loaded_readonly_addresses)) :
                a.key \in DOMAIN kcounts
    /\ kout.st = "ok" =>
        \A i \in 1..Len(kin) : \A m \in Range(kin[i].metadata) :
            LET cm == kout.txs[i].metadata[1]
                ids(addrs) == [j \in 1..Len(Only32(addrs)) |->
                                lookup_unchecked(kindex, Only32(addrs)[j].key)]
            IN  /\ cm.loaded_writable_indices = ids(m.loaded_writable_addresses) \o <<>>
                /\ cm.loaded_readonly_indices = ids(m.loaded_readonly_addresses) \o <<>>
\* the part of C27 the code keeps: the addresses of a block without a short
\* one are counted, and mapped in order by the encoding pass
C27_FullAddressesMapped ==
    /\ kpc \notin {"count", "panicked"} =>
        \A i \in 1..Len(kin) : \A m \in Range(kin[i].metadata) :
            \A a \in Range(Only32(m.loaded_writable_addresses \o m.loaded_readonly_addresses)) :
                a.key \in DOMAIN kcounts
    /\ kout.st = "ok" =>
        \A i \in 1..Len(kin) : \A m \in Range(kin[i].metadata) :
            LET cm == kout.txs[i].metadata[1]
                ids(addrs) == [j \in 1..Len(Only32(addrs)) |->
                                lookup_unchecked(kindex, Only32(addrs)[j].key)]
            IN  /\ cm.loaded_writable_indices = ids(m.loaded_writable_addresses) \o <<>>
                /\ cm.loaded_readonly_indices = ids(m.loaded_readonly_addresses) \o <<>>

(***************************************************************************)
(* Claims on the metadata decoder (SpecMeta) and on TxIter (SpecTxIter).   *)
(***************************************************************************)
Decoded == mdout.st \in {"ok", "error"} /\ mdin.frame # EmptyFrame

(***************************************************************************)
(* C26: decode_transaction_status_meta chooses the encoding from           *)
(* epoch = slot div 432000 alone: the legacy length-prefixed decoder if    *)
(* and only if the epoch is strictly below the cutoff constant, the        *)
(* tag-length-value decoder otherwise; the slot cutoff * 432000 is decoded *)
(* with the tag-length-value decoder and every slot of epoch cutoff - 1    *)
(* with the legacy decoder.                                                *)
(***************************************************************************)
\* the outcome is the legacy reader's: no message field is merged
ByLegacy ==
    LET r == wincode_deserialize(mdin.frame.body) IN
    /\ mdout.st = "ok" <=> r.ok
    /\ mdout.stored = r.val
    /\ mdout.out = IF r.ok THEN stored_meta_to_proto(r.val) ELSE DefaultMeta
\* the outcome is the message reader's: no legacy record is read
ByTlv ==
    LET r == Message_merge(DefaultMeta, mdin.frame.body) IN
    /\ mdout.st = "ok" <=> r.ok
    /\ mdout.stored = NoneValue
    /\ mdout.out = r.out
C26_EpochChoosesDecoder ==
    Decoded =>
        /\ mdin.slot \div 432000 < BINCODE_EPOCH_CUTOFF => ByLegacy
        /\ mdin.slot \div 432000 >= BINCODE_EPOCH_CUTOFF => ByTlv
        /\ mdin.slot = BINCODE_EPOCH_CUTOFF * 432000 => ByTlv
        /\ mdin.slot \in (BINCODE_EPOCH_CUTOFF * 432000 - 432000)
                            ..(BINCODE_EPOCH_CUTOFF * 432000 - 1) => ByLegacy
\* the first slot of the cutoff epoch, on bytes only the message reader takes
C26_Witness ==
    /\ Decoded
    /\ mdin.slot = BINCODE_EPOCH_CUTOFF * 432000
    /\ mdout.st = "ok" /\ mdout.out.wire # <<>>
    /\ ~wincode_deserialize(mdin.frame.body).ok

(***************************************************************************)
(* C29: in a legacy record, input that ends exactly where the discriminant *)
(* byte of a trailing optional field (inner_instructions to cost_units)    *)
(* would start makes that field and every later one None and the decoding  *)
(* succeeds; a discriminant 0 gives None, 1 gives Some(value), any other    *)
(* discriminant is an error, and input that ends inside a present value is *)
(* an error.                                                               *)
(***************************************************************************)
\* the value a present trailing field holds in the inputs
PieceValue(i) == SchemaRead(StoredTransactionStatusMeta.fields[4 + i].of, TrailingPieces[i], 1).val
LegacyRaw == mdin.frame.zstd = "no" /\ mdin.slot \div 432000 < BINCODE_EPOCH_CUTOFF
C25_TxIterAborts ==
    (tret.op \in {"next_tx", "panic"} /\ tret.tx > 0
        /\ (tin[tret.tx].data_next \/ tin[tret.tx].metadata_next)) =>
        tret.op = "panic"

(***************************************************************************)
(* C28: after TxIter::next_tx yields a transaction, the metadata exposed   *)
(* for it (the meta element of the returned pair, and current_metadata())  *)
(* is absent if and only if that transaction's metadata bytes are empty,   *)
(* and otherwise is the decoding of exactly that transaction's metadata    *)
(* bytes; no field decoded for an earlier transaction remains visible as   *)
(* metadata of the current one.                                            *)
(***************************************************************************)
Yielded == tret.op = "next_tx" /\ tret.res = "Some"

\* the decoding of exactly the metadata bytes of a node, into a fresh record
DecodingOf(n) ==
    decode_transaction_status_meta_from_frame(n.slot, n.metadata, DefaultMeta).out

C28_MetadataOfCurrentTx ==
    Yielded =>
        /\ (tret.meta = <<>>) <=> (tin[tret.tx].metadata = EmptyFrame)
        /\ tin[tret.tx].metadata # EmptyFrame =>
               /\ tret.meta = <<DecodingOf(tin[tret.tx])>>
               /\ current_metadata = DecodingOf(tin[tret.tx])
        /\ tin[tret.tx].metadata = EmptyFrame => current_metadata = DefaultMeta

\* the part that holds: the meta element of the returned pair, and
\* current_metadata() for a transaction that has metadata bytes
C28_ReturnedPairOfCurrentTx ==
    Yielded =>
        /\ (tret.meta = <<>>) <=> (tin[tret.tx].metadata = EmptyFrame)
        /\ tin[tret.tx].metadata # EmptyFrame =>
               /\ tret.meta = <<DecodingOf(tin[tret.tx])>>
               /\ current_metadata = DecodingOf(tin[tret.tx])

\* a transaction without metadata bytes is yielded after one with metadata
C28_StaleWitness ==
    /\ Yielded /\ tret.tx = 2
    /\ tin[2].metadata = EmptyFrame /\ tin[1].metadata # EmptyFrame
    /\ tret.meta = <<>>
    /\ current_metadata = DecodingOf(tin[1])
    /\ current_metadata # DefaultMeta

(***************************************************************************)
(* C30: for every k, the k-th hash written to the epoch's                  *)
(* blockhash_registry.bin is the hash of the last entry of the k-th block  *)
(* the encoding pass emits, so the header blockhash id of a compact block  *)
(* resolves through the epoch's blockhash registry to that block's own     *)
(* blockhash, and its previous-blockhash id to the blockhash of the        *)
(* preceding block.                                                        *)
(***************************************************************************)
\* the hash of the last entry of a block, <<>> when it has no entry
LastEntryHash(g) ==
    IF EntriesOf(g) = <<>> THEN <<>>
    ELSE <<EntryHash(EntriesOf(g)[Len(EntriesOf(g))])>>

\* the registry the files hold, against the blocks gs of the records
C30_Over(gs) ==
    \A reg \in {BlockhashRegistry_new(fs.bh.data, <<>>)} :
        /\ Len(fs.cmp.data) <= Len(gs)
        /\ \A k \in 1..Len(fs.bh.data) :
               /\ k <= Len(fs.cmp.data)
               /\ <<fs.bh.data[k]>> = LastEntryHash(gs[k])
        /\ \A k \in 1..Len(fs.cmp.data) :
               /\ fs.cmp.data[k].header.slot = gs[k].block_payload[3]
               /\ BlockhashRegistry_get(reg, fs.cmp.data[k].header.blockhash) # <<>>
               /\ BlockhashRegistry_get(reg, fs.cmp.data[k].header.blockhash)
                      = LastEntryHash(gs[k])
               /\ k > 1 =>
                      /\ BlockhashRegistry_get(reg, fs.cmp.data[k].header.previous_blockhash)
                             # <<>>
                      /\ BlockhashRegistry_get(reg, fs.cmp.data[k].header.previous_blockhash)
                             = LastEntryHash(gs[k - 1])

C30_BlockhashIdsResolve ==
    (fs.bh.exists /\ fs.cmp.exists) => C30_Over(Streamed.groups)

\* the part that holds: archives in which every block has an entry
C30_ResolveWhenEveryBlockHasEntries ==
    (fs.bh.exists /\ fs.cmp.exists /\ \A g \in 1..Len(archive.shape) : archive.shape[g] > 0)
        => C30_Over(Streamed.groups)

\* both files written for two blocks, the first without entries: one hash,
\* and the first record's id resolves to the second block's blockhash
C30_ShiftedWitness ==
    /\ pc = "done" /\ fs.bh.exists /\ fs.cmp.exists
    /\ Len(fs.cmp.data) = 2 /\ Len(fs.bh.data) = 1
    /\ fs.cmp.data[1].txs = <<>> /\ fs.cmp.data[2].txs # <<>>
    /\ BlockhashRegistry_get(BlockhashRegistry_new(fs.bh.data, <<>>),
                             fs.cmp.data[1].header.blockhash)
           = LastEntryHash(Streamed.groups[2])
    /\ BlockhashRegistry_get(BlockhashRegistry_new(fs.bh.data, <<>>),
                             fs.cmp.data[2].header.blockhash) = <<>>

\* three blocks with entries: every id resolves
C30_ResolvedWitness ==
    /\ pc = "done" /\ fs.bh.exists /\ fs.cmp.exists
    /\ Len(fs.cmp.data) = 3 /\ Len(fs.bh.data) = 3
    /\ \A k \in 1..3 : fs.cmp.data[k].txs # <<>>
    /\ BlockhashRegistry_get(BlockhashRegistry_new(fs.bh.data, <<>>),
                             fs.cmp.data[3].header.previous_blockhash)
           = LastEntryHash(Streamed.groups[2])

====
